---------------------------- MODULE Spec2Model ----------------------------
(***************************************************************************)
(* A model of the athlete dashboard (scurfo/dashboard).                    *)
(*                                                                         *)
(* Two programs live in the repository.  Dashboard.py loads a session      *)
(* table at import, derives the normalised strength and asymmetry columns  *)
(* and serves the update_dashboard callback.  app.py serves the metric     *)
(* pages of MetricPage.py, whose donuts are built from module-level        *)
(* tables.  The variable prog records which of the two is running.         *)
(* For app.py the model also follows the browser: the current pathname,    *)
(* the page display_page returned for it and the two dropdowns.            *)
(*                                                                         *)
(* Numbers.  The code computes with IEEE-754 doubles, and so does the      *)
(* model: every arithmetic operation rounds its result to the nearest      *)
(* double, ties to even, and keeps the sign of zero, the infinities and    *)
(* NaN.  The section on float64 arithmetic describes how a double is       *)
(* written with small integers.  Properties that the spec states as        *)
(* equations between real numbers are stated on the doubles up to the      *)
(* rounding of the operations (Approx, Rounded).                           *)
(***************************************************************************)
EXTENDS Integers, Sequences, FiniteSets, TLC

VARIABLES
    prog,           \* "Dashboard" (python Dashboard.py) or "app" (python app.py)
    pc,             \* position of the module-level code of Dashboard.py
    df,             \* the session table: column name -> sequence of cells
    dash_out,       \* what the last update_dashboard invocation returned or raised
    strength_data,  \* MetricPage.strength_data: title -> entry
    power_data,     \* MetricPage.power_data
    reactive_data,  \* MetricPage.reactive_data
    chart_out,      \* what the last create_*_chart call returned or raised
    noted,          \* history: an earlier return value of update_dashboard, kept
                    \* by an observer to compare later invocations with, and
                    \* whether other selections were served since
    pathname,       \* app.py: the pathname of dcc.Location, an optional string
    page_out,       \* app.py: what display_page returned for it
    athlete_dropdown,   \* app.py: the value of the athlete dropdown
    date_dropdown,      \* app.py: the date picked in the date dropdown, if any
    capacity_out    \* what the last create_pictogram_chart call returned

siteVars == <<pathname, page_out, athlete_dropdown, date_dropdown, capacity_out>>

vars == <<prog, pc, df, dash_out, strength_data, power_data, reactive_data, chart_out, noted,
          pathname, page_out, athlete_dropdown, date_dropdown, capacity_out>>

---------------------------------------------------------------------------
(* Bounds of the model.                                                    *)

\* raw measurements of the session table range over -1..MaxRaw
MaxRaw == 3
\* number of sessions of a multi-session table
MaxRows == 2
\* left, right and target of a varied metric-table entry range over 0..MaxMetric
MaxMetric == 3

---------------------------------------------------------------------------
(* float64 arithmetic.  A finite double x is written against the fraction  *)
(* n/d that the same computation gives in exact arithmetic:                 *)
(*     x = 2^t * (n * 2^G + c) / (d * 2^G),   G = 53 - floor(log2 |n/d|),   *)
(* so that c counts how far x lies from n/d, in units of 1/d on the grid of *)
(* spacing 2^-G (half the spacing of the doubles around n/d).  c is 0 when  *)
(* n/d is itself the double; t is 0 unless x lies outside 2^-30 .. 2^31,    *)
(* and then n/d lies in [1, 2).  Every operation rounds its exact result to *)
(* the nearest double, ties to the even significand, as the hardware does.  *)
(* d = 0 writes inf (n = 1, -1) and NaN (n = 0).                            *)

Abs(x) == IF x < 0 THEN -x ELSE x
Sgn(i) == IF i > 0 THEN 1 ELSE IF i < 0 THEN -1 ELSE 0
Least(i, j) == IF i < j THEN i ELSE j

RECURSIVE GCD(_, _)
GCD(a, b) == IF b = 0 THEN a ELSE GCD(b, a % b)

RECURSIVE Pow10(_)
Pow10(p) == IF p = 0 THEN 1 ELSE 10 * Pow10(p - 1)

RECURSIVE Pow2(_)
Pow2(e) == IF e = 0 THEN 1 ELSE 2 * Pow2(e - 1)

RECURSIVE IsPow2(_)
IsPow2(d) == d = 1 \/ (d % 2 = 0 /\ IsPow2(d \div 2))

\* the k with 2^k <= n/d < 2^(k+1), for n, d > 0
RECURSIVE Log2Floor(_, _)
Log2Floor(n, d) ==
    IF n < d THEN Log2Floor(2 * n, d) - 1
    ELSE IF n >= 2 * d THEN Log2Floor(n, 2 * d) + 1
    ELSE 0

\* (r * 2^e) % d for 0 <= r < d, by as many doublings at a time as 31 bits hold
RECURSIVE ModDouble(_, _, _)
ModDouble(r, d, e) ==
    IF e = 0 THEN r
    ELSE IF e >= 15 /\ d <= 65536 THEN ModDouble((r * 32768) % d, d, e - 15)
    ELSE IF e >= 8 /\ d <= 8388608 THEN ModDouble((r * 256) % d, d, e - 8)
    ELSE ModDouble((2 * r) % d, d, e - 1)

R(i) == [n |-> i, d |-> 1, c |-> 0, t |-> 0]
\* the double -0.0: the zero written over 2, which no reduced fraction is; it
\* equals 0.0 in every comparison and differs from it in sign only
NegZero == [n |-> 0, d |-> 2, c |-> 0, t |-> 0]
NaN == [n |-> 0, d |-> 0, c |-> 0, t |-> 0]
PosInf == [n |-> 1, d |-> 0, c |-> 0, t |-> 0]
NegInf == [n |-> -1, d |-> 0, c |-> 0, t |-> 0]
Inf(sign) == IF sign < 0 THEN NegInf ELSE PosInf

IsFinite(x) == x.d > 0
IsNaN(x) == x.d = 0 /\ x.n = 0
IsInf(x) == x.d = 0 /\ x.n # 0
Sign(x) == Sgn(x.n)
IsZero(x) == x.n = 0 /\ x.d > 0
\* the sign bit of a double that is not NaN
SignBit(x) == x.n < 0 \/ x = NegZero
Zero(negative) == IF negative THEN NegZero ELSE R(0)
\* the sign of a product or quotient: -1 when exactly one sign bit is set
SignOf(a, b) == IF SignBit(a) # SignBit(b) THEN -1 ELSE 1
\* floor(log2 |n/d|) of a finite double that is not zero, t left aside
Exponent(x) == Log2Floor(Abs(x.n), x.d)

\* the last step of a rounding on the grid of n/d with m = d * s: rest is where
\* n/d lies above the double below it, whole adds the whole grid steps of the
\* deviation p/q and part is what remains of it, odd tells whether the double
\* below n/d has an odd significand
RoundTo(d, s, rest, odd, whole, part, q, sg) ==
    LET m == d * s
        j0 == whole \div m
        gap == m - 2 * (whole % m)
        side == IF gap < 0 THEN 1
                ELSE IF gap >= 2 THEN -1
                ELSE IF gap = 0 THEN (IF part > 0 THEN 1 ELSE 0)
                ELSE Sgn(2 * part - q)
        up == IF side # 0 THEN side > 0
              ELSE IF sg # 0 THEN sg > 0
              ELSE odd # (j0 % 2 = 1)
        j == IF up THEN j0 + 1 ELSE j0
    IN  s * j * d - rest

\* r2 is n * 2^G modulo two steps of the doubles around n/d
RoundAt(d, p, q, sg, s, r2) ==
    RoundTo(d, s, r2 % (d * s), r2 >= d * s, (r2 % (d * s)) + (p \div q), p % q, q, sg)

\* the c of the double nearest to the exact value
\*     (n * 2^G + p/q + sg * e) / (d * 2^G),    n, q > 0, n/d in lowest terms,
\* where e > 0 is smaller than any gap between the fractions at hand.  The
\* doubles around n/d are the multiples of s on the grid: of 2, or of 1 just
\* below a power of two; j counts them from the one at or below n/d.
RoundOn(n, d, p, q, sg, s) ==
    RoundAt(d, p, q, sg, s, ModDouble(n % (2 * d * s), 2 * d * s, 53 - Log2Floor(n, d)))

RoundPos(n, d, p, q, sg) ==
    RoundOn(n, d, p, q, sg,
            IF (p < 0 \/ (p = 0 /\ sg < 0)) /\ ((n = 1 /\ IsPow2(d)) \/ (d = 1 /\ IsPow2(n)))
                THEN 1 ELSE 2)

\* the same for either sign of n, with p/q brought to lowest terms
Round(n, d, p, q, sg) ==
    LET g == GCD(Abs(p), q)
    IN  Sgn(n) * RoundPos(Abs(n), d, (Sgn(n) * p) \div g, q \div g, Sgn(n) * sg)

\* n/d multiplied by 2^sh, with the c that names the same double
RECURSIVE Scale(_, _, _, _, _)
Scale(n, d, c, t, sh) ==
    IF sh = 0 THEN [n |-> n, d |-> d, c |-> c, t |-> t]
    ELSE IF sh > 0
        THEN (IF d % 2 = 0 THEN Scale(n, d \div 2, c \div 2, t, sh - 1)
              ELSE Scale(2 * n, d, c, t, sh - 1))
    ELSE (IF n % 2 = 0 THEN Scale(n \div 2, d, c, t, sh + 1)
          ELSE Scale(n, 2 * d, 2 * c, t, sh + 1))

\* the one way a double is written: t = 0 where the exponent allows it
Canon(n, d, c, t) ==
    LET k0 == Log2Floor(Abs(n), d)
        \* doubles between 2^-30 and 2^31 are written with t = 0
        sh == IF Abs(k0 + t) <= 30 THEN t ELSE -k0
    IN  Scale(n, d, c, t - sh, sh)

\* float("n/d" written as a decimal): the double nearest to n/d, d # 0
Float(n, d) ==
    LET g == GCD(Abs(n), Abs(d))
        s == IF d < 0 THEN -1 ELSE 1
        n0 == (s * n) \div g
        d0 == (s * d) \div g
    IN  IF n = 0 THEN R(0) ELSE Canon(n0, d0, Round(n0, d0, 0, 1, 0), 0)

FNeg(x) ==
    IF IsZero(x) THEN Zero(~SignBit(x))
    ELSE [n |-> -x.n, d |-> x.d, c |-> -x.c, t |-> x.t]

FAbs(x) == IF IsNaN(x) \/ ~SignBit(x) THEN x ELSE FNeg(x)

\* the double nearest to a result whose exact arithmetic gives n/d in lowest
\* terms and whose operands were pa and pb (over q) off theirs, counted on
\* grids ea and eb binary places finer than that of n/d.  The sign of the
\* second-order term is sg, or that of the deviation times sp.
Nearest(n, d, pa, pb, ea, eb, q, sg, sp, t) ==
    LET lo == Least(0, Least(ea, eb))
        p == pa * Pow2(ea - lo) + pb * Pow2(eb - lo)
        on == pa = 0 /\ pb = 0
    IN  Canon(n, d,
              Round(n, d, IF on THEN 0 ELSE p, IF on THEN 1 ELSE q * Pow2(-lo),
                    IF on THEN 0 ELSE sg + sp * Sgn(p)),
              t)

\* a + b over the common denominator, g0 being the common factor of a.d and b.d
AddOn(a, b, t, g0) ==
    LET N == a.n * (b.d \div g0) + b.n * (a.d \div g0)
        D == (a.d \div g0) * b.d
        g == GCD(Abs(N), D)
        k3 == Log2Floor(Abs(N \div g), D \div g)
        \* the fractions cancel: what is left of the two roundings is exact
        left == (a.c + b.c) \div a.d
        twos == CHOOSE e \in 0 .. 29 : left % Pow2(e) = 0 /\ left % Pow2(e + 1) # 0
    IN  IF N # 0 THEN
            Nearest(N \div g, D \div g, a.c * (b.d \div g0), b.c * (a.d \div g0),
                    Exponent(a) - k3, Exponent(b) - k3, g, 0, 0, t)
        ELSE IF left = 0 THEN R(0)
        ELSE Canon(left \div Pow2(twos), 1, 0, t + twos - (53 - Exponent(a)))

\* a + b of two finite doubles that are not zero and are written with the same t
AddAligned(a, b, t) == AddOn(a, b, t, GCD(a.d, b.d))

\* x + y where y is written with another t and is far smaller than x: the
\* sum is x moved by y, which counts on the grid of x
AddSmall(x, y) ==
    Nearest(x.n, x.d, x.c * y.d, x.d * y.n, 0, y.t - x.t + 53 - Exponent(x),
            y.d, Sgn(y.c), 0, x.t)

\* a + b of two finite doubles that are not zero, of binary exponents xa and xb
AddFinite(a, b, xa, xb) ==
    \* an addend below a quarter of the other's last place is lost
    IF xb < xa - 54 THEN a
    ELSE IF xa < xb - 54 THEN b
    ELSE IF a.t = b.t THEN AddAligned(a, b, a.t)
    ELSE AddSmall(IF xa < xb THEN b ELSE a, IF xa < xb THEN a ELSE b)

FAdd(a, b) ==
    IF IsNaN(a) \/ IsNaN(b) THEN NaN
    ELSE IF IsZero(a) /\ IsZero(b) THEN Zero(SignBit(a) /\ SignBit(b))
    ELSE IF IsZero(a) THEN b
    ELSE IF IsZero(b) THEN a
    ELSE IF IsFinite(a) /\ IsFinite(b)
        THEN AddFinite(a, b, Exponent(a) + a.t, Exponent(b) + b.t)
    ELSE IF IsInf(a) /\ IsInf(b) THEN (IF a.n = b.n THEN a ELSE NaN)
    ELSE IF IsInf(a) THEN a ELSE b

FSub(a, b) == FAdd(a, FNeg(b))

\* a * b of two finite doubles that are not zero; g1 and g2 are the factors
\* that the numerator of one has in common with the denominator of the other
MulBy(a, b, g1, g2) ==
    LET n3 == (a.n \div g1) * (b.n \div g2)
        d3 == (a.d \div g2) * (b.d \div g1)
        k3 == Log2Floor(Abs(n3), d3)
    IN  Nearest(n3, d3, a.n * b.c, b.n * a.c, Exponent(b) - k3, Exponent(a) - k3,
                g1 * g2, Sgn(a.c) * Sgn(b.c), 0, a.t + b.t)

FMul(a, b) ==
    IF IsNaN(a) \/ IsNaN(b) THEN NaN
    ELSE IF IsFinite(a) /\ IsFinite(b)
        THEN IF IsZero(a) \/ IsZero(b) THEN Zero(SignOf(a, b) < 0)
             ELSE MulBy(a, b, GCD(Abs(a.n), b.d), GCD(Abs(b.n), a.d))
    ELSE IF IsZero(a) \/ IsZero(b) THEN NaN
    ELSE Inf(SignOf(a, b))

\* a / b of two finite doubles that are not zero; gn and gd are the common
\* factors of the numerators and of the denominators
DivBy(a, b, gn, gd) ==
    LET n3 == (a.n \div gn) * (b.d \div gd) * Sgn(b.n)
        d3 == (a.d \div gd) * (Abs(b.n) \div gn)
        k3 == Log2Floor(Abs(n3), d3)
    IN  Nearest(n3, d3, (b.d \div gd) * a.c * (b.n \div gn), -(b.d \div gd) * (a.n \div gn) * b.c,
                Exponent(a) - k3, Exponent(b) - k3,
                Abs(b.n), 0, -Sgn(b.c) * Sgn(b.n), a.t - b.t)

\* numpy / pandas true division: a zero divisor gives inf or NaN, never raises
FDiv(a, b) ==
    IF IsNaN(a) \/ IsNaN(b) THEN NaN
    ELSE IF IsInf(a) THEN (IF IsInf(b) THEN NaN ELSE Inf(SignOf(a, b)))
    ELSE IF IsInf(b) THEN Zero(SignOf(a, b) < 0)
    ELSE IF IsZero(b) THEN (IF IsZero(a) THEN NaN ELSE Inf(SignOf(a, b)))
    ELSE IF IsZero(a) THEN Zero(SignOf(a, b) < 0)
    ELSE DivBy(a, b, GCD(Abs(a.n), Abs(b.n)), GCD(a.d, b.d))

\* a < b on doubles: false whenever an operand is NaN
FLt(a, b) ==
    /\ ~IsNaN(a) /\ ~IsNaN(b)
    /\ a # b
    /\ IF IsInf(a) THEN a.n < 0
       ELSE IF IsInf(b) THEN b.n > 0
       ELSE IF a.n = 0 \/ b.n = 0 \/ Sgn(a.n) # Sgn(b.n) THEN Sgn(a.n) < Sgn(b.n)
       ELSE IF a.t # b.t
           THEN Sgn(a.n) * (Exponent(a) + a.t) < Sgn(b.n) * (Exponent(b) + b.t)
       ELSE IF a.n * b.d # b.n * a.d THEN a.n * b.d < b.n * a.d
       ELSE a.c < b.c

FGe(a, b) == ~IsNaN(a) /\ ~IsNaN(b) /\ ~FLt(a, b)

\* Python's builtin max(a, b): b only when b > a
PyMax(a, b) == IF FLt(a, b) THEN b ELSE a
\* Python's builtin min(a, b): b only when b < a
PyMin(a, b) == IF FLt(b, a) THEN b ELSE a

\* format(x, ".pf"): the decimal with p places nearest to the double x, whose
\* magnitude is q units of 10^-p, with the sign of x, also on a zero.  Where
\* n/d is halfway between two decimals the double is on the side its c
\* names, and only a double that is exactly halfway goes to the even decimal.
FormatAt(x, p, num) ==
    LET lo == num \div x.d
        rem == num % x.d
        far == x.c * Sgn(x.n)
        up == IF 2 * rem # x.d THEN 2 * rem > x.d
              ELSE IF far # 0 THEN far > 0
              ELSE lo % 2 = 1
        q == IF x.t < 0 THEN 0 ELSE IF up THEN lo + 1 ELSE lo
    IN  [kind |-> "num", q |-> IF x.n < 0 THEN -q ELSE q, places |-> p,
         minus |-> SignBit(x)]

FormatF(x, p) ==
    IF IsNaN(x) THEN [kind |-> "nan", q |-> 0, places |-> p, minus |-> FALSE]
    ELSE IF IsInf(x)
        THEN [kind |-> IF x.n > 0 THEN "inf" ELSE "-inf", q |-> 0, places |-> p,
              minus |-> x.n < 0]
    ELSE FormatAt(x, p, Abs(x.n) * Pow2(x.t) * Pow10(p))

---------------------------------------------------------------------------
(* pandas Series: elementwise arithmetic on columns.                       *)

SeriesMul(a, b) == [i \in DOMAIN a |-> FMul(a[i], b[i])]
SeriesDiv(a, b) == [i \in DOMAIN a |-> FDiv(a[i], b[i])]
SeriesAdd(a, b) == [i \in DOMAIN a |-> FAdd(a[i], b[i])]
SeriesSub(a, b) == [i \in DOMAIN a |-> FSub(a[i], b[i])]
SeriesDivScalar(a, c) == [i \in DOMAIN a |-> FDiv(a[i], c)]
SeriesMulScalar(a, c) == [i \in DOMAIN a |-> FMul(a[i], c)]

---------------------------------------------------------------------------
(* The session table of Dashboard.py (data.csv after read_csv / to_datetime). *)
(* Dates are day numbers.  A table is column-oriented, as a DataFrame is.   *)

KeyColumns == {"athlete", "date", "date_of_birth", "injury_date"}

MeasureColumns ==
    {"body_mass",
     "knee_extension_force_left", "knee_extension_force_right",
     "knee_extension_lever_left", "knee_extension_lever_right",
     "knee_flexion_force_left", "knee_flexion_force_right",
     "knee_flexion_lever_left", "knee_flexion_lever_right",
     "calf_force_left", "calf_force_right",
     "sl_jump_height_left", "sl_jump_height_right",
     "rsid_left", "rsid_right"}

RawColumns == KeyColumns \cup MeasureColumns

MetricColumns ==
    {"knee_extension_left", "knee_extension_right",
     "knee_flexion_left", "knee_flexion_right",
     "calf_strength_left", "calf_strength_right"}

AsymmetryColumns ==
    {"knee_extension_asymmetry", "knee_flexion_asymmetry", "calf_strength_asymmetry",
     "jump_height_asymmetry", "rsid_asymmetry"}

\* the constants of the derived metrics and of update_dashboard
Gravity == Float(981, 100)
JumpTarget == R(17)
RsidTarget == Float(13, 25)
DaysPerYear == Float(1461, 4)
DaysPerWeek == R(7)

Athletes == {"A", "B"}
Dates == {10, 24}
InjuryDates == {10, 17}
BirthDates == {-7295}

RawInts == -1 .. MaxRaw
RawVals == {R(v) : v \in RawInts}
MassVals == {R(-2), R(0), R(2)}
LeverVals == {R(1), Float(3, 10)}
\* jump heights and reactive strength indices in halves of their targets
JumpVals == {Float(17 * v, 2) : v \in RawInts}
RsidVals == {Float(13 * v, 50) : v \in RawInts}

\* a plain session: every value positive, the calf forces equal, the right
\* jump above its target
BaseMeasures ==
    [body_mass |-> R(2),
     knee_extension_force_left |-> R(2), knee_extension_force_right |-> R(3),
     knee_extension_lever_left |-> R(1), knee_extension_lever_right |-> R(1),
     knee_flexion_force_left |-> R(3), knee_flexion_force_right |-> R(1),
     knee_flexion_lever_left |-> Float(3, 10), knee_flexion_lever_right |-> Float(3, 10),
     calf_force_left |-> R(3), calf_force_right |-> R(3),
     sl_jump_height_left |-> R(15), sl_jump_height_right |-> R(18),
     rsid_left |-> Float(2, 5), rsid_right |-> Float(13, 25)]

\* the measurements of one session: one test (with the body mass where the
\* test is normalised by it) ranges over all its values, the others are plain
VariedMeasures ==
    {[BaseMeasures EXCEPT !.body_mass = m,
                          !.knee_extension_force_left = fl, !.knee_extension_force_right = fr,
                          !.knee_extension_lever_left = ll, !.knee_extension_lever_right = lr]
        : m \in MassVals, fl \in RawVals, fr \in RawVals, ll \in LeverVals, lr \in LeverVals}
    \cup
    {[BaseMeasures EXCEPT !.body_mass = m,
                          !.knee_flexion_force_left = fl, !.knee_flexion_force_right = fr,
                          !.knee_flexion_lever_left = ll, !.knee_flexion_lever_right = lr]
        : m \in MassVals, fl \in RawVals, fr \in RawVals, ll \in LeverVals, lr \in LeverVals}
    \cup
    {[BaseMeasures EXCEPT !.body_mass = m, !.calf_force_left = fl, !.calf_force_right = fr]
        : m \in MassVals, fl \in RawVals, fr \in RawVals}
    \cup
    {[BaseMeasures EXCEPT !.sl_jump_height_left = l, !.sl_jump_height_right = r]
        : l \in JumpVals, r \in JumpVals}
    \cup
    {[BaseMeasures EXCEPT !.rsid_left = l, !.rsid_right = r]
        : l \in RsidVals, r \in RsidVals}

\* the measurements the sessions of a multi-session table take
SampleMeasures ==
    {BaseMeasures,
     [BaseMeasures EXCEPT !.sl_jump_height_left = R(0), !.sl_jump_height_right = R(0),
                          !.body_mass = R(0)],
     [BaseMeasures EXCEPT !.rsid_left = Float(13, 25), !.rsid_right = Float(13, 50),
                          !.sl_jump_height_left = R(17)]}

\* the worked examples of the documentation: jump heights 10 and 20 either
\* way round; a session of 70 kg with a left knee extension of 231 N at 0.3 m,
\* a right knee extension of 1.1 N.m/kg and calf forces of 500 N
ExampleMeasures ==
    {[BaseMeasures EXCEPT !.sl_jump_height_left = R(10), !.sl_jump_height_right = R(20)],
     [BaseMeasures EXCEPT !.sl_jump_height_left = R(20), !.sl_jump_height_right = R(10)],
     [BaseMeasures EXCEPT !.body_mass = R(70),
                          !.knee_extension_force_left = R(231),
                          !.knee_extension_lever_left = Float(3, 10),
                          !.knee_extension_force_right = R(77),
                          !.knee_extension_lever_right = R(1),
                          !.calf_force_left = R(500), !.calf_force_right = R(500)]}

Session(a, d, inj, m) ==
    [c \in RawColumns |->
        IF c = "athlete" THEN a
        ELSE IF c = "date" THEN d
        ELSE IF c = "date_of_birth" THEN CHOOSE b \in BirthDates : TRUE
        ELSE IF c = "injury_date" THEN inj
        ELSE m[c]]

Sessions(ms) == {Session(a, d, inj, m) : a \in Athletes, d \in Dates, inj \in InjuryDates, m \in ms}

\* one row per (athlete, date)
UniqueKeys(rows) ==
    \A i, j \in DOMAIN rows :
        (rows[i]["athlete"] = rows[j]["athlete"] /\ rows[i]["date"] = rows[j]["date"]) => i = j

RowLists ==
    {<<Session("A", 10, 3, m)>> : m \in VariedMeasures \cup ExampleMeasures}
    \cup
    UNION {{rows \in [1 .. k -> Sessions(SampleMeasures)] : UniqueKeys(rows)} : k \in 0 .. MaxRows}

\* the DataFrame of a list of rows
Frame(rows) == [c \in RawColumns |-> [i \in 1 .. Len(rows) |-> rows[i][c]]]

NoTable == [c \in {} |-> <<>>]
NRows == IF "date" \in DOMAIN df THEN Len(df["date"]) ELSE 0
RowIds == 1 .. NRows

---------------------------------------------------------------------------
(* Module-level code of Dashboard.py.                                      *)

\* variants with a plausible slip, which the properties below must tell apart
KneeStrength_NoLever(force, lever, mass) == SeriesDiv(force, mass)
CalfStrength_Fraction(force, mass) == SeriesDiv(SeriesDivScalar(force, Gravity), mass)
calculate_asymmetry_Swapped(left, right) ==
    SeriesMulScalar(
        SeriesDiv(SeriesSub(left, right), SeriesDivScalar(SeriesAdd(left, right), R(2))),
        R(100))
calculate_asymmetry_Abs(left, right) ==
    [i \in DOMAIN left |->
        FMul(FDiv(FAbs(FSub(left[i], right[i])), PyMax(left[i], right[i])), R(100))]

calculate_asymmetry_OverSum(left, right) ==
    SeriesMulScalar(SeriesDiv(SeriesSub(right, left), SeriesAdd(left, right)), R(100))
calculate_asymmetry_OverMax(left, right) ==
    [i \in DOMAIN left |->
        FMul(FDiv(FSub(right[i], left[i]), PyMax(left[i], right[i])), R(100))]
KneeStrength_Sum(force, lever, mass) == SeriesDiv(SeriesAdd(force, lever), mass)
CalfStrength_Gravity10(force, mass) ==
    SeriesMulScalar(SeriesDiv(SeriesDivScalar(force, R(10)), mass), R(100))

\* (force * lever) / body_mass
KneeStrength(force, lever, mass) == SeriesDiv(SeriesMul(force, lever), mass)

\* (force / 9.81) / body_mass * 100
CalfStrength(force, mass) ==
    SeriesMulScalar(SeriesDiv(SeriesDivScalar(force, Gravity), mass), R(100))

\* ((right - left) / ((left + right) / 2)) * 100
calculate_asymmetry(left, right) ==
    SeriesMulScalar(
        SeriesDiv(SeriesSub(right, left), SeriesDivScalar(SeriesAdd(left, right), R(2))),
        R(100))

DerivedMetrics(t) ==
    [c \in MetricColumns |->
        IF c = "knee_extension_left"
            THEN KneeStrength(t["knee_extension_force_left"], t["knee_extension_lever_left"], t["body_mass"])
        ELSE IF c = "knee_extension_right"
            THEN KneeStrength(t["knee_extension_force_right"], t["knee_extension_lever_right"], t["body_mass"])
        ELSE IF c = "knee_flexion_left"
            THEN KneeStrength(t["knee_flexion_force_left"], t["knee_flexion_lever_left"], t["body_mass"])
        ELSE IF c = "knee_flexion_right"
            THEN KneeStrength(t["knee_flexion_force_right"], t["knee_flexion_lever_right"], t["body_mass"])
        ELSE IF c = "calf_strength_left"
            THEN CalfStrength(t["calf_force_left"], t["body_mass"])
        ELSE CalfStrength(t["calf_force_right"], t["body_mass"])]

DerivedAsymmetry(t) ==
    [c \in AsymmetryColumns |->
        IF c = "knee_extension_asymmetry"
            THEN calculate_asymmetry(t["knee_extension_left"], t["knee_extension_right"])
        ELSE IF c = "knee_flexion_asymmetry"
            THEN calculate_asymmetry(t["knee_flexion_left"], t["knee_flexion_right"])
        ELSE IF c = "calf_strength_asymmetry"
            THEN calculate_asymmetry(t["calf_strength_left"], t["calf_strength_right"])
        ELSE IF c = "jump_height_asymmetry"
            THEN calculate_asymmetry(t["sl_jump_height_left"], t["sl_jump_height_right"])
        ELSE calculate_asymmetry(t["rsid_left"], t["rsid_right"])]

\* Dashboard.py lines 30-35: the normalised strength columns are added
DeriveMetrics ==
    /\ prog = "Dashboard"
    /\ pc = "derive_metrics"
    /\ df' = df @@ DerivedMetrics(df)
    /\ pc' = "derive_asymmetry"
    /\ UNCHANGED <<prog, dash_out, strength_data, power_data, reactive_data, chart_out, noted, siteVars>>

\* Dashboard.py lines 41-45: the asymmetry columns are added
DeriveAsymmetry ==
    /\ prog = "Dashboard"
    /\ pc = "derive_asymmetry"
    /\ df' = df @@ DerivedAsymmetry(df)
    /\ pc' = "serving"
    /\ UNCHANGED <<prog, dash_out, strength_data, power_data, reactive_data, chart_out, noted, siteVars>>

\* the dropdown options
athletes == {df["athlete"][i] : i \in RowIds}
dates == {df["date"][i] : i \in RowIds}

---------------------------------------------------------------------------
(* The callback of Dashboard.py.                                           *)

\* a dropdown value: None, or Some(v)
None == <<>>
Some(v) == <<v>>

\* df[df["athlete"] == selected_athlete].sort_values("date"): the row ids in date order
RECURSIVE SortByDate(_)
SortByDate(ids) ==
    IF ids = {} THEN <<>>
    ELSE LET first == CHOOSE i \in ids : \A j \in ids :
                          \/ df["date"][i] < df["date"][j]
                          \/ (df["date"][i] = df["date"][j] /\ i <= j)
         IN  <<first>> \o SortByDate(ids \ {first})

AthleteRows(selected_athlete) ==
    SortByDate({i \in RowIds : df["athlete"][i] = selected_athlete})

PercentOfTarget_Clamped(value, target) == PyMin(R(100), FMul(FDiv(value, target), R(100)))
Remaining_Unclamped(value, target) == FSub(target, value)

\* (value / target) * 100 on a numpy double
PercentOfTarget(value, target) == FMul(FDiv(value, target), R(100))

\* a variant that turns green only above 100 percent
DonutGlow_Strict(percentage, color) ==
    IF FLt(R(100), percentage)
        THEN [value |-> percentage, color |-> "#2ecc71", opacities |-> <<50, 40, 30>>]
        ELSE [value |-> percentage, color |-> color, opacities |-> <<20, 15, 10>>]

\* add_donut_glow: three pies of the percentage, green at or above 100 percent
\* and in the side's colour below; opacities in hundredths
DonutGlow(percentage, color) ==
    IF FGe(percentage, R(100))
        THEN [value |-> percentage, color |-> "#2ecc71", opacities |-> <<50, 40, 30>>]
        ELSE [value |-> percentage, color |-> color, opacities |-> <<20, 15, 10>>]

\* a variant with the distance to the target in place of the shortfall
Remaining_Distance(value, target) ==
    IF FLt(target, value) THEN FSub(value, target) ELSE FSub(target, value)

\* the "Remaining" slice of a dashboard donut
Remaining(value, target) == PyMax(R(0), FSub(target, value))

\* a dashboard donut: glow, the two slices, and the annotation text
DashDonut(value, target, color, places) ==
    LET percentage == PercentOfTarget(value, target)
    IN  [glow |-> DonutGlow(percentage, color),
         values |-> <<value, Remaining(value, target)>>,
         text_percent |-> FormatF(percentage, 1),
         text_value |-> FormatF(value, places)]

\* a line figure: weeks since injury against the left and right series
LineFigure(rows, x, left, right) ==
    [x |-> x,
     left |-> [k \in DOMAIN rows |-> df[left][rows[k]]],
     right |-> [k \in DOMAIN rows |-> df[right][rows[k]]]]

WeeksSince_Clipped(date, reference) ==
    FDiv(R(IF date < reference THEN 0 ELSE date - reference), DaysPerWeek)
WeeksSince_Swapped(date, reference) == FDiv(R(reference - date), DaysPerWeek)
AgeYears_CommonYear(date_of_birth, date) == FDiv(R(date - date_of_birth), R(365))

\* (date - reference).days / 7
WeeksSince(date, reference) == FDiv(R(date - reference), DaysPerWeek)

\* (date - date_of_birth).days / 365.25
AgeYears(date_of_birth, date) == FDiv(R(date - date_of_birth), DaysPerYear)

update_dashboard(selected_athlete, selected_date) ==
    IF selected_athlete = None \/ selected_date = None
    THEN [kind |-> "empty", selected_athlete |-> selected_athlete, selected_date |-> selected_date]
    ELSE
    LET athlete_df == AthleteRows(selected_athlete[1])
        matching == SelectSeq(athlete_df, LAMBDA i : df["date"][i] = selected_date[1])
    IN  IF matching = <<>>
        THEN [kind |-> "raise", error |-> "IndexError",
              selected_athlete |-> selected_athlete, selected_date |-> selected_date]
        ELSE
        LET latest == matching[1]
            age == AgeYears(df["date_of_birth"][latest], df["date"][latest])
            weeks_since_injury ==
                [k \in DOMAIN athlete_df |->
                    WeeksSince(df["date"][athlete_df[k]], df["injury_date"][latest])]
        IN  [kind |-> "ok",
             selected_athlete |-> selected_athlete, selected_date |-> selected_date,
             athlete_title |-> selected_athlete[1],
             athlete_info |-> [age |-> FormatF(age, 1),
                               injury_date |-> df["injury_date"][latest],
                               weeks |-> FormatF(WeeksSince(df["date"][latest],
                                                            df["injury_date"][latest]), 1)],
             jump_left_donut |-> DashDonut(df["sl_jump_height_left"][latest], JumpTarget, "#01ADD8", 1),
             jump_right_donut |-> DashDonut(df["sl_jump_height_right"][latest], JumpTarget, "#364650", 1),
             rsid_left_donut |-> DashDonut(df["rsid_left"][latest], RsidTarget, "#01ADD8", 2),
             rsid_right_donut |-> DashDonut(df["rsid_right"][latest], RsidTarget, "#364650", 2),
             jump_asymmetry |-> FormatF(df["jump_height_asymmetry"][latest], 1),
             rsid_asymmetry |-> FormatF(df["rsid_asymmetry"][latest], 1),
             extension_line |-> LineFigure(athlete_df, weeks_since_injury,
                                           "knee_extension_left", "knee_extension_right"),
             flexion_line |-> LineFigure(athlete_df, weeks_since_injury,
                                         "knee_flexion_left", "knee_flexion_right"),
             calf_line |-> LineFigure(athlete_df, weeks_since_injury,
                                      "calf_strength_left", "calf_strength_right")]

\* the observer of the callback: once a return value is noted, it records
\* whether an invocation with other selections has been served since
Observed(out) ==
    IF noted.out.kind = "never" THEN noted
    ELSE [noted EXCEPT !.others = @ \/ out.selected_athlete # noted.out.selected_athlete
                                    \/ out.selected_date # noted.out.selected_date]

\* a variant of the callback that writes the injury date it used back into
\* the table
UpdateDashboard_Stores ==
    /\ prog = "Dashboard"
    /\ pc = "serving"
    /\ \E selected_athlete \in {Some(a) : a \in athletes} \cup {None},
          selected_date \in {Some(d) : d \in dates} \cup {None} :
           LET out == update_dashboard(selected_athlete, selected_date)
           IN  /\ dash_out' = out
               /\ noted' = Observed(out)
               /\ df' = IF out.kind = "ok"
                            THEN [df EXCEPT !["injury_date"] =
                                     [i \in RowIds |-> out.athlete_info.injury_date]]
                            ELSE df
    /\ UNCHANGED <<prog, pc, strength_data, power_data, reactive_data, chart_out, siteVars>>

\* a variant of the callback that keeps the title of the previous selection
UpdateDashboard_Stale ==
    /\ prog = "Dashboard"
    /\ pc = "serving"
    /\ \E selected_athlete \in {Some(a) : a \in athletes} \cup {None},
          selected_date \in {Some(d) : d \in dates} \cup {None} :
           LET out == update_dashboard(selected_athlete, selected_date)
           IN  /\ dash_out' = IF out.kind = "ok" /\ dash_out.kind = "ok"
                                  THEN [out EXCEPT !.athlete_title = dash_out.selected_athlete[1]]
                                  ELSE out
               /\ noted' = Observed(out)
    /\ UNCHANGED <<prog, pc, df, strength_data, power_data, reactive_data, chart_out, siteVars>>

\* Dash invokes the callback with the values of the two dropdowns
UpdateDashboard ==
    /\ prog = "Dashboard"
    /\ pc = "serving"
    /\ \E selected_athlete \in {Some(a) : a \in athletes} \cup {None},
          selected_date \in {Some(d) : d \in dates} \cup {None} :
           LET out == update_dashboard(selected_athlete, selected_date)
           IN  /\ dash_out' = out
               /\ noted' = Observed(out)
    /\ UNCHANGED <<prog, pc, df, strength_data, power_data, reactive_data, chart_out, siteVars>>

---------------------------------------------------------------------------
(* The donut charts of MetricPage.py.                                      *)

StrengthTitles ==
    {"Isometric Knee Extension Strength", "Eccentric Knee Flexion Strength [Nordic]",
     "Seated Plantarflexion Strength"}
PowerTitles == {"Vertical Jump", "Broad Jump", "Medicine Ball Throw"}
ReactiveTitles == {"Drop Jump", "Reactive Strength Index", "Contact Time"}

Entry(l, r, t) == [left |-> l, right |-> r, target |-> t]

\* the tables as the source writes them
SampleStrength ==
    [t \in StrengthTitles |->
        IF t = "Isometric Knee Extension Strength"
            THEN Entry(Float(29, 10), Float(31, 10), Float(33, 10))
        ELSE IF t = "Eccentric Knee Flexion Strength [Nordic]"
            THEN Entry(Float(18, 10), Float(17, 10), R(2))
        ELSE Entry(R(180), R(175), R(200))]

SamplePower ==
    [t \in PowerTitles |->
        IF t = "Vertical Jump" THEN Entry(Float(552, 10), Float(581, 10), R(65))
        ELSE IF t = "Broad Jump" THEN Entry(Float(2155, 10), Float(2203, 10), R(245))
        ELSE Entry(Float(82, 10), Float(87, 10), R(10))]

SampleReactive ==
    [t \in ReactiveTitles |->
        IF t = "Drop Jump" THEN Entry(Float(325, 10), Float(338, 10), R(38))
        ELSE IF t = "Reactive Strength Index" THEN Entry(Float(18, 10), Float(185, 100), R(2))
        ELSE Entry(Float(17, 100), Float(165, 1000), Float(2, 10))]

MetricVals == {R(v) : v \in 0 .. MaxMetric}
VariedEntries == {Entry(l, r, t) : l \in MetricVals, r \in MetricVals, t \in MetricVals}

\* entries whose asymmetry is 10% and 20% in real numbers: of the first three
\* the doubles are 10.0 and 20.0, of the last two 9.999999999999993 and
\* 19.999999999999996
BandEntries ==
    {Entry(R(10), R(9), R(10)), Entry(R(5), R(4), R(5)), Entry(R(4), R(5), R(10)),
     Entry(Float(27, 10), R(3), Float(33, 10)), Entry(Float(16, 10), R(2), R(2))}
\* a table with one entry replaced by other sample data
Varied(table) ==
    {[table EXCEPT ![t] = e] : t \in DOMAIN table, e \in VariedEntries \cup BandEntries}

\* the three tables of a run: those of the source, or with one entry varied
MetricTables ==
    {<<SampleStrength, SamplePower, SampleReactive>>}
    \cup {<<s, SamplePower, SampleReactive>> : s \in Varied(SampleStrength)}
    \cup {<<SampleStrength, p, SampleReactive>> : p \in Varied(SamplePower)}
    \cup {<<SampleStrength, SamplePower, r>> : r \in Varied(SampleReactive)}

\* Python float division raises ZeroDivisionError on a zero divisor
DivRaises(b) == b.n = 0 /\ b.d # 0

\* min(100, (raw / target) * 100)
ClampedPercent(raw, target) == PyMin(R(100), FMul(FDiv(raw, target), R(100)))


\* a variant with the mean of the two sides as the reference
PageAsymmetry_Mean(left_raw, right_raw) ==
    FMul(FDiv(FAbs(FSub(left_raw, right_raw)), FDiv(FAdd(left_raw, right_raw), R(2))), R(100))

\* abs(left_raw - right_raw) / max(left_raw, right_raw) * 100
PageAsymmetry(left_raw, right_raw) ==
    FMul(FDiv(FAbs(FSub(left_raw, right_raw)), PyMax(left_raw, right_raw)), R(100))

AsymmetryColor(asymmetry) ==
    IF FLt(asymmetry, R(10)) THEN "#4CAF50"
    ELSE IF FLt(asymmetry, R(20)) THEN "#FFC107"
    ELSE "#F44336"

\* a variant of the donut whose second slice is taken from nine tenths of the first
PageDonut_Drift(percent, raw, places) ==
    [values |-> <<percent, FSub(R(100), FMul(percent, Float(9, 10)))>>,
     text_percent |-> FormatF(percent, 0),
     text_value |-> FormatF(raw, places)]

\* a metric-page donut: the two slices and the two annotations
PageDonut(percent, raw, places) ==
    [values |-> <<percent, FSub(R(100), percent)>>,
     text_percent |-> FormatF(percent, 0),
     text_value |-> FormatF(raw, places)]

\* the body shared by create_strength_chart, create_power_chart and
\* create_reactive_chart; places is the precision of the raw-value text
create_chart(title, data, places) ==
    IF DivRaises(data.target) \/ DivRaises(PyMax(data.left, data.right))
    THEN [kind |-> "raise", error |-> "ZeroDivisionError", title |-> title,
          left_raw |-> data.left, right_raw |-> data.right, target |-> data.target]
    ELSE
    LET left_percent == ClampedPercent(data.left, data.target)
        right_percent == ClampedPercent(data.right, data.target)
        asymmetry == PageAsymmetry(data.left, data.right)
    IN  [kind |-> "ok", title |-> title,
         left_raw |-> data.left, right_raw |-> data.right, target |-> data.target,
         left_donut |-> PageDonut(left_percent, data.left, places),
         right_donut |-> PageDonut(right_percent, data.right, places),
         asymmetry_text |-> FormatF(asymmetry, 1),
         asymmetry_color |-> AsymmetryColor(asymmetry)]

create_strength_chart(title) == create_chart(title, strength_data[title], 1)
create_power_chart(title) == create_chart(title, power_data[title], 1)
create_reactive_chart(title) == create_chart(title, reactive_data[title], 2)

CreateStrengthChart ==
    /\ prog = "app"
    /\ \E title \in StrengthTitles : chart_out' = create_strength_chart(title)
    /\ UNCHANGED <<prog, pc, df, dash_out, strength_data, power_data, reactive_data, noted, siteVars>>

CreatePowerChart ==
    /\ prog = "app"
    /\ \E title \in PowerTitles : chart_out' = create_power_chart(title)
    /\ UNCHANGED <<prog, pc, df, dash_out, strength_data, power_data, reactive_data, noted, siteVars>>

CreateReactiveChart ==
    /\ prog = "app"
    /\ \E title \in ReactiveTitles : chart_out' = create_reactive_chart(title)
    /\ UNCHANGED <<prog, pc, df, dash_out, strength_data, power_data, reactive_data, noted, siteVars>>

---------------------------------------------------------------------------
(* The two programs.                                                       *)

Never == [kind |-> "never"]
NothingNoted == [out |-> Never, others |-> FALSE]

\* no browser has asked for a page
SiteIdle ==
    /\ pathname = <<>>
    /\ page_out = Never
    /\ athlete_dropdown = <<>>
    /\ date_dropdown = <<>>
    /\ capacity_out = Never

InitDashboard ==
    /\ prog = "Dashboard"
    /\ pc = "derive_metrics"
    /\ \E rows \in RowLists : df = Frame(rows)
    /\ dash_out = Never
    /\ strength_data = NoTable /\ power_data = NoTable /\ reactive_data = NoTable
    /\ chart_out = Never
    /\ noted = NothingNoted
    /\ SiteIdle

InitApp ==
    /\ prog = "app"
    /\ pc = "serving"
    /\ df = NoTable
    /\ dash_out = Never
    /\ \E t \in MetricTables :
           strength_data = t[1] /\ power_data = t[2] /\ reactive_data = t[3]
    /\ chart_out = Never
    /\ noted = NothingNoted
    /\ SiteIdle

Init == InitDashboard \/ InitApp

Next ==
    \/ DeriveMetrics
    \/ DeriveAsymmetry
    \/ UpdateDashboard
    \/ CreateStrengthChart
    \/ CreatePowerChart
    \/ CreateReactiveChart

Spec == Init /\ [][Next]_vars

---------------------------------------------------------------------------
(* Dashboard.py with an observer of its callback.  The observer may note   *)
(* the value the callback just returned; every later invocation can then   *)
(* be compared with the noted one, whatever was invoked in between.        *)

\* the sessions of an observed table: two kinds of measurements
NotedMeasures ==
    {BaseMeasures,
     [BaseMeasures EXCEPT !.rsid_left = Float(13, 25), !.rsid_right = Float(13, 50),
                          !.sl_jump_height_left = R(17)]}

NotedRowLists ==
    UNION {{rows \in [1 .. k -> {Session(a, d, 17, m) : a \in Athletes, d \in Dates,
                                                      m \in NotedMeasures}] :
                UniqueKeys(rows)} : k \in 1 .. MaxRows}

InitNoted ==
    /\ prog = "Dashboard"
    /\ pc = "derive_metrics"
    /\ \E rows \in NotedRowLists : df = Frame(rows)
    /\ dash_out = Never
    /\ strength_data = NoTable /\ power_data = NoTable /\ reactive_data = NoTable
    /\ chart_out = Never
    /\ noted = NothingNoted
    /\ SiteIdle

\* the observer notes the value the callback returned last
NoteOutput ==
    /\ dash_out.kind # "never"
    /\ noted' = [out |-> dash_out, others |-> FALSE]
    /\ UNCHANGED <<prog, pc, df, dash_out, strength_data, power_data, reactive_data, chart_out, siteVars>>

NextNoted ==
    \/ DeriveMetrics
    \/ DeriveAsymmetry
    \/ UpdateDashboard
    \/ NoteOutput

SpecNoted == InitNoted /\ [][NextNoted]_vars

---------------------------------------------------------------------------
(* app.py: the pages display_page returns.                                 *)

\* calendar dates are written yyyymmdd, so that the order of the numbers is
\* the order of the ISO date strings the code compares
\* pd.date_range(start='2023-01-01', end='2023-12-31', freq='ME'): month ends
DATES ==
    <<20230131, 20230228, 20230331, 20230430, 20230531, 20230630,
      20230731, 20230831, 20230930, 20231031, 20231130, 20231231>>

\* strftime('%d/%m/%Y'): the day, month and year of a date
Dmy(date) == [day |-> date % 100, month |-> (date \div 100) % 100, year |-> date \div 10000]

AthleteOptions == {"athlete1", "athlete2", "athlete3"}

\* the text, link and page name of the six navigation circles, in row order
NavLinks ==
    <<[text |-> "Capacity / Motor Control", href |-> "/capacity", page |-> "capacity"],
      [text |-> "Strength / Hypertrophy", href |-> "/strength", page |-> "strength"],
      [text |-> "Power / RFD (Slow SSC)", href |-> "/power", page |-> "power"],
      [text |-> "Reactive Strength (Fast SSC)", href |-> "/reactive", page |-> "reactive"],
      [text |-> "Linear Running", href |-> "/linear", page |-> "linear"],
      [text |-> "Change of Direction", href |-> "/direction", page |-> "direction"]>>

\* a circle is drawn enlarged and glowing when is_selected
create_nav_circle(text, href, is_selected) ==
    [text |-> text, href |-> href, is_selected |-> is_selected,
     transform |-> IF is_selected THEN "scale(1.08)" ELSE "scale(1)",
     zIndex |-> IF is_selected THEN "1000" ELSE "1"]

\* variants of the circle rows with a slip
PageCircles_First(active_page) ==
    [i \in DOMAIN NavLinks |->
        create_nav_circle(NavLinks[i].text, NavLinks[i].href,
                          active_page = NavLinks[i].page \/ i = 1)]

\* the row of circles of create_navigation_dashboard: selected by pathname
DashboardCircles(path) ==
    [i \in DOMAIN NavLinks |->
        create_nav_circle(NavLinks[i].text, NavLinks[i].href, path = NavLinks[i].href)]

\* the row of circles of create_metric_page and create_capacity_page:
\* selected by active_page
PageCircles(active_page) ==
    [i \in DOMAIN NavLinks |->
        create_nav_circle(NavLinks[i].text, NavLinks[i].href, active_page = NavLinks[i].page)]

create_navigation_dashboard(path) ==
    [kind |-> "navigation", title |-> "Athlete Dashboard",
     athlete_options |-> AthleteOptions,
     date_options |-> DATES, date_default |-> DATES[Len(DATES)],
     circles |-> DashboardCircles(path)]

\* np.random.normal(100, 10, len(DATES)) takes its array from the process-wide
\* generator, which nothing seeds and every call advances: the arrays a page
\* gets are decided by the state the generator is in when the page is built,
\* which the page does not control.  The model keeps two such states apart by
\* a name; the k-th array taken from a state is named by the state and k.
GeneratorStates == {"state a", "state b"}
Normal(state, k) == [loc |-> 100, scale |-> 10, size |-> Len(DATES), state |-> state, draw |-> k]

\* the metric titles in the order of the dictionaries and lists of the source
StrengthOrder ==
    <<"Isometric Knee Extension Strength", "Eccentric Knee Flexion Strength [Nordic]",
      "Seated Plantarflexion Strength">>
PowerOrder == <<"Vertical Jump", "Broad Jump", "Medicine Ball Throw">>
ReactiveOrder == <<"Drop Jump", "Reactive Strength Index", "Contact Time">>
LinearOrder == <<"10m Sprint", "20m Sprint", "40m Sprint">>
DirectionOrder == <<"505 Test", "T-Test", "Illinois Test">>

MaxOf(seq) == CHOOSE m \in {seq[i] : i \in DOMAIN seq} : \A i \in DOMAIN seq : seq[i] <= m

\* a number is true unless it is zero; None is false
Truthy(target) == target # None /\ ~(target[1].n = 0 /\ target[1].d # 0)

\* left and right are the two arrays drawn for the Left and Right columns;
\* the units of the axis title are not modelled
create_line_graph(title, yaxis_title, target, left, right) ==
    [title |-> title, yaxis_title |-> yaxis_title,
     x |-> DATES, left |-> left, right |-> right,
     test_date |-> Dmy(MaxOf(DATES)),
     target_line |-> IF Truthy(target) THEN target ELSE None]

---------------------------------------------------------------------------
(* MetricPage.py: the capacity page.                                       *)

LowerLimbTests == <<"Single Leg Calf Raises", "Single Leg Bridge", "Single Leg Squat">>
UpperLimbTests == <<"Push-ups", "Chin-ups">>
Exercises == {"Single Leg Calf Raises", "Single Leg Bridge", "Single Leg Squat",
              "Push-ups", "Chin-ups"}

\* the record dates of historical_data, the same twelve for every exercise
HistDates ==
    <<20230101, 20230201, 20230301, 20230401, 20230501, 20230601,
      20230701, 20230801, 20230901, 20231001, 20231101, 20231201>>

\* the left and right repetitions of each exercise, record by record
LeftReps ==
    [e \in Exercises |->
        IF e = "Single Leg Calf Raises" THEN <<15, 17, 19, 21, 23, 25, 27, 28, 28, 28, 28, 28>>
        ELSE IF e = "Single Leg Bridge" THEN <<12, 14, 16, 18, 20, 22, 24, 26, 28, 28, 28, 28>>
        ELSE IF e = "Single Leg Squat" THEN <<8, 10, 12, 14, 16, 18, 20, 22, 24, 24, 24, 24>>
        ELSE IF e = "Push-ups" THEN <<15, 16, 17, 18, 19, 20, 21, 22, 23, 24, 24, 24>>
        ELSE <<5, 6, 6, 7, 7, 8, 8, 9, 9, 10, 10, 10>>]
RightReps ==
    [e \in Exercises |->
        IF e = "Single Leg Calf Raises" THEN <<13, 15, 17, 19, 21, 23, 25, 26, 26, 26, 26, 26>>
        ELSE IF e = "Single Leg Bridge" THEN <<10, 12, 14, 16, 18, 20, 22, 24, 26, 26, 26, 26>>
        ELSE IF e = "Single Leg Squat" THEN <<6, 8, 10, 12, 14, 16, 18, 20, 22, 22, 22, 22>>
        ELSE IF e = "Push-ups" THEN <<15, 16, 17, 18, 19, 20, 21, 22, 23, 24, 24, 24>>
        ELSE <<5, 6, 6, 7, 7, 8, 8, 9, 9, 10, 10, 10>>]

\* historical_data[exercise]: date -> {left, right}
historical_data ==
    [e \in Exercises |->
        [d \in {HistDates[i] : i \in DOMAIN HistDates} |->
            LET i == CHOOSE j \in DOMAIN HistDates : HistDates[j] = d
            IN  [left |-> LeftReps[e][i], right |-> RightReps[e][i]]]]

\* the words of an exercise title: the source tests for a word with 'in'
TitleWords ==
    [e \in Exercises |->
        IF e = "Single Leg Calf Raises" THEN {"Single", "Leg", "Calf", "Raises"}
        ELSE IF e = "Single Leg Bridge" THEN {"Single", "Leg", "Bridge"}
        ELSE IF e = "Single Leg Squat" THEN {"Single", "Leg", "Squat"}
        ELSE {e}]

\* a variant that never shows more than max_reps dots
IconRow_Capped(reps, side, max_reps) ==
    LET fill_color == IF side = "Left" THEN "#00BCD4" ELSE "#455A64"
        faded == IF side = "Left" THEN "rgba(0, 188, 212, 0.2)" ELSE "rgba(69, 90, 100, 0.2)"
        all_dots == [i \in 1 .. max_reps |-> IF i - 1 < reps THEN fill_color ELSE faded]
    IN  [side |-> side, reps |-> reps, color |-> fill_color,
         rows |-> [k \in 1 .. ((max_reps + 9) \div 10) |->
                      SubSeq(all_dots, 10 * (k - 1) + 1,
                             IF 10 * k < max_reps THEN 10 * k ELSE max_reps)]]

\* max_reps of create_pictogram_chart
MaxRepsOf(title) ==
    IF "Calf" \in TitleWords[title] THEN 30
    ELSE IF "Push-ups" \in TitleWords[title] THEN 25
    ELSE IF "Chin-ups" \in TitleWords[title] THEN 12
    ELSE 25

\* create_icon_row: the dots of one side, cut into rows of ten
create_icon_row(reps, side, max_reps) ==
    LET remaining == IF max_reps - reps > 0 THEN max_reps - reps ELSE 0
        fill_color == IF side = "Left" THEN "#00BCD4" ELSE "#455A64"
        faded == IF side = "Left" THEN "rgba(0, 188, 212, 0.2)" ELSE "rgba(69, 90, 100, 0.2)"
        n == reps + remaining
        all_dots == [i \in 1 .. n |-> IF i - 1 < reps THEN fill_color ELSE faded]
    IN  [side |-> side, reps |-> reps, color |-> fill_color,
         rows |-> [k \in 1 .. ((n + 9) \div 10) |->
                      SubSeq(all_dots, 10 * (k - 1) + 1, IF 10 * k < n THEN 10 * k ELSE n)]]

create_pictogram_chart(title, left_reps, right_reps) ==
    [kind |-> "pictogram", title |-> title,
     left |-> create_icon_row(left_reps, "Left", MaxRepsOf(title)),
     right |-> create_icon_row(right_reps, "Right", MaxRepsOf(title))]

\* the dates of an exercise that are not after the selected date
DatesUpTo(exercise, selected_date) ==
    {d \in DOMAIN historical_data[exercise] : d <= selected_date}
Latest(ds) == CHOOSE d \in ds : \A e \in ds : e <= d
Earliest(ds) == CHOOSE d \in ds : \A e \in ds : d <= e

\* a variant whose loop stops at the first date
get_latest_data_First(exercise, selected_date) ==
    historical_data[exercise][Earliest(DOMAIN historical_data[exercise])]

\* the data of the most recent date not after selected_date, or of the
\* earliest date when there is none
get_latest_data(exercise, selected_date) ==
    LET valid == DatesUpTo(exercise, selected_date)
    IN  IF valid # {} THEN historical_data[exercise][Latest(valid)]
        ELSE historical_data[exercise][Earliest(DOMAIN historical_data[exercise])]

\* one chart of create_charts: the pictogram and the 'Last tested' label,
\* whose date stays None when no date is on or before the selected one
CapacityChart(exercise, selected_date) ==
    LET latest_data == get_latest_data(exercise, selected_date)
        valid == DatesUpTo(exercise, selected_date)
    IN  [chart |-> create_pictogram_chart(exercise, latest_data.left, latest_data.right),
         test_date |-> IF valid # {} THEN Some(Dmy(Latest(valid))) ELSE None]

create_charts(selected_date) ==
    [kind |-> "charts", selected_date |-> selected_date,
     lower_limb |-> [k \in DOMAIN LowerLimbTests |-> CapacityChart(LowerLimbTests[k], selected_date)],
     upper_limb |-> [k \in DOMAIN UpperLimbTests |-> CapacityChart(UpperLimbTests[k], selected_date)]]

\* the dates of the capacity dropdown and its default, the most recent one
CapacityDates == HistDates
default_date == HistDates[Len(HistDates)]

\* a variant that reads the date dropdown
create_capacity_page_Selected(active_page) ==
    LET charts == create_charts(IF date_dropdown = None THEN default_date ELSE date_dropdown[1])
    IN  [kind |-> "capacity", title |-> "Capacity Metrics",
         athlete_options |-> AthleteOptions,
         date_options |-> CapacityDates, date_default |-> default_date,
         circles |-> PageCircles(active_page),
         lower_limb |-> charts.lower_limb, upper_limb |-> charts.upper_limb]

create_capacity_page(active_page) ==
    LET charts == create_charts(default_date)
    IN  [kind |-> "capacity", title |-> "Capacity Metrics",
         athlete_options |-> AthleteOptions,
         date_options |-> CapacityDates, date_default |-> default_date,
         circles |-> PageCircles(active_page),
         lower_limb |-> charts.lower_limb, upper_limb |-> charts.upper_limb]

---------------------------------------------------------------------------
(* MetricPage.py and app.py: the metric pages and the routing.             *)

\* one row of a page with donuts: the donut chart and the line graph of a
\* metric; state is the generator state when the page is built, and the k-th
\* graph of a page gets the arrays 2k-1 and 2k taken from it
DonutRow(k, chart, metric, yaxis_title, target, state) ==
    [donut |-> chart,
     line |-> create_line_graph(metric, yaxis_title, Some(target),
                                Normal(state, 2 * k - 1), Normal(state, 2 * k))]

\* one row of the linear and direction pages: a line graph without target
LineRow(k, metric, state) ==
    [line |-> create_line_graph(metric, "Time (s)", None, Normal(state, 2 * k - 1), Normal(state, 2 * k))]

\* the graphs of create_metric_page for the pages other than capacity
Graphs(active_page, state) ==
    IF active_page = "strength"
        THEN [k \in DOMAIN StrengthOrder |->
                 DonutRow(k, create_strength_chart(StrengthOrder[k]), StrengthOrder[k],
                          "Strength", strength_data[StrengthOrder[k]].target, state)]
    ELSE IF active_page = "power"
        THEN [k \in DOMAIN PowerOrder |->
                 DonutRow(k, create_power_chart(PowerOrder[k]), PowerOrder[k],
                          "Power", power_data[PowerOrder[k]].target, state)]
    ELSE IF active_page = "reactive"
        THEN [k \in DOMAIN ReactiveOrder |->
                 DonutRow(k, create_reactive_chart(ReactiveOrder[k]), ReactiveOrder[k],
                          "Reactive Strength", reactive_data[ReactiveOrder[k]].target, state)]
    ELSE IF active_page = "linear"
        THEN [k \in DOMAIN LinearOrder |-> LineRow(k, LinearOrder[k], state)]
    ELSE IF active_page = "direction"
        THEN [k \in DOMAIN DirectionOrder |-> LineRow(k, DirectionOrder[k], state)]
    ELSE <<>>

\* a chart that raised ends the construction of the page
Raised(graphs) ==
    \E k \in DOMAIN graphs : "donut" \in DOMAIN graphs[k] /\ graphs[k].donut.kind = "raise"

\* the layout of a metric page around its graphs
MetricLayout(active_page, graphs) ==
    IF Raised(graphs)
    THEN [kind |-> "raise", error |-> "ZeroDivisionError", active_page |-> active_page]
    ELSE [kind |-> "metric", active_page |-> active_page,
          athlete_options |-> AthleteOptions,
          date_options |-> DATES, date_default |-> DATES[Len(DATES)],
          circles |-> PageCircles(active_page),
          graphs |-> graphs]

\* the title argument is not used by the source
create_metric_page(title, active_page, state) ==
    IF active_page = "capacity" THEN create_capacity_page(active_page)
    ELSE MetricLayout(active_page, Graphs(active_page, state))

\* a variant that has no rule for the last page
display_page_NoDirection(path, state) ==
    LET p == IF path = None \/ path = Some("") THEN "/" ELSE path[1]
    IN  IF p = "/capacity" THEN create_metric_page("Capacity / Motor Control", "capacity", state)
        ELSE IF p = "/strength" THEN create_metric_page("Strength / Hypertrophy", "strength", state)
        ELSE IF p = "/power" THEN create_metric_page("Power / RFD", "power", state)
        ELSE IF p = "/reactive" THEN create_metric_page("Reactive Strength", "reactive", state)
        ELSE IF p = "/linear" THEN create_metric_page("Linear Running", "linear", state)
        ELSE create_navigation_dashboard(p)

\* app.py display_page: None and the empty string count as '/'
display_page(path, state) ==
    LET p == IF path = None \/ path = Some("") THEN "/" ELSE path[1]
    IN  IF p = "/" THEN create_navigation_dashboard(p)
        ELSE IF p = "/capacity" THEN create_metric_page("Capacity / Motor Control", "capacity", state)
        ELSE IF p = "/strength" THEN create_metric_page("Strength / Hypertrophy", "strength", state)
        ELSE IF p = "/power" THEN create_metric_page("Power / RFD", "power", state)
        ELSE IF p = "/reactive" THEN create_metric_page("Reactive Strength", "reactive", state)
        ELSE IF p = "/linear" THEN create_metric_page("Linear Running", "linear", state)
        ELSE IF p = "/direction" THEN create_metric_page("Change of Direction", "direction", state)
        ELSE create_navigation_dashboard(p)

\* the pathnames a browser sends: none, the empty string, the root, the six
\* pages and two that name no page
Pathnames ==
    {None, Some(""), Some("/"), Some("/capacity"), Some("/strength"), Some("/power"),
     Some("/reactive"), Some("/linear"), Some("/direction"), Some("/capacity/"),
     Some("/unknown")}

\* Dash invokes display_page when the page loads and when the URL changes
DisplayPage ==
    /\ prog = "app"
    /\ \E path \in Pathnames, state \in GeneratorStates :
           /\ pathname' = path
           /\ page_out' = display_page(path, state)
    /\ UNCHANGED <<prog, pc, df, dash_out, strength_data, power_data, reactive_data,
                   chart_out, noted, athlete_dropdown, date_dropdown, capacity_out>>

\* the user picks or clears an athlete in the dropdown of the page shown
SelectAthlete ==
    /\ prog = "app"
    /\ page_out.kind \in {"navigation", "metric", "capacity"}
    /\ \E a \in {Some(o) : o \in page_out.athlete_options} \cup {None} :
           athlete_dropdown' = a
    /\ UNCHANGED <<prog, pc, df, dash_out, strength_data, power_data, reactive_data,
                   chart_out, noted, pathname, page_out, date_dropdown, capacity_out>>

\* the user picks a date in the dropdown of the page shown; of its options
\* the model keeps the first and the last
SelectDate ==
    /\ prog = "app"
    /\ page_out.kind \in {"navigation", "metric", "capacity"}
    /\ \E d \in {page_out.date_options[1], page_out.date_options[Len(page_out.date_options)]} :
           date_dropdown' = Some(d)
    /\ UNCHANGED <<prog, pc, df, dash_out, strength_data, power_data, reactive_data,
                   chart_out, noted, pathname, page_out, athlete_dropdown, capacity_out>>

\* app.py as shipped: the tables of the source, no page asked for yet
InitSite ==
    /\ prog = "app"
    /\ pc = "serving"
    /\ df = NoTable
    /\ dash_out = Never
    /\ strength_data = SampleStrength /\ power_data = SamplePower
    /\ reactive_data = SampleReactive
    /\ chart_out = Never
    /\ noted = NothingNoted
    /\ SiteIdle

NextSite ==
    \/ DisplayPage
    \/ SelectAthlete
    \/ SelectDate

SpecSite == InitSite /\ [][NextSite]_vars

---------------------------------------------------------------------------
(* create_pictogram_chart, as the capacity page calls it and applied to     *)
(* inputs of its domain.                                                   *)

\* repetitions range over 0..MaxReps
MaxReps == 31

CreatePictogramChart ==
    /\ prog = "app"
    /\ \E title \in Exercises, left_reps \in 0 .. MaxReps :
       \E right_reps \in {0, left_reps} :
           capacity_out' = create_pictogram_chart(title, left_reps, right_reps)
    /\ UNCHANGED <<prog, pc, df, dash_out, strength_data, power_data, reactive_data,
                   chart_out, noted, pathname, page_out, athlete_dropdown, date_dropdown>>

\* create_capacity_page calls create_charts with the default date, which
\* calls create_pictogram_chart once per exercise with the repetitions of the
\* record get_latest_data returns
CreateCharts ==
    /\ prog = "app"
    /\ \E exercise \in Exercises :
           capacity_out' = CapacityChart(exercise, default_date).chart
    /\ UNCHANGED <<prog, pc, df, dash_out, strength_data, power_data, reactive_data,
                   chart_out, noted, pathname, page_out, athlete_dropdown, date_dropdown>>

NextCapacity ==
    \/ CreatePictogramChart
    \/ CreateCharts

SpecCapacity == InitSite /\ [][NextCapacity]_vars

---------------------------------------------------------------------------
(* Properties.                                                             *)

\* the asymmetry columns with the left/right pair each is computed from
AsymmetryPairs ==
    {<<"knee_extension_asymmetry", "knee_extension_left", "knee_extension_right">>,
     <<"knee_flexion_asymmetry", "knee_flexion_left", "knee_flexion_right">>,
     <<"calf_strength_asymmetry", "calf_strength_left", "calf_strength_right">>,
     <<"jump_height_asymmetry", "sl_jump_height_left", "sl_jump_height_right">>,
     <<"rsid_asymmetry", "rsid_left", "rsid_right">>}

\* the knee columns with the force and lever each is computed from
KneeSources ==
    {<<"knee_extension_left", "knee_extension_force_left", "knee_extension_lever_left">>,
     <<"knee_extension_right", "knee_extension_force_right", "knee_extension_lever_right">>,
     <<"knee_flexion_left", "knee_flexion_force_left", "knee_flexion_lever_left">>,
     <<"knee_flexion_right", "knee_flexion_force_right", "knee_flexion_lever_right">>}

CalfSources ==
    {<<"calf_strength_left", "calf_force_left">>, <<"calf_strength_right", "calf_force_right">>}

HasMetrics == prog = "Dashboard" /\ pc \in {"derive_asymmetry", "serving"}
Loaded == prog = "Dashboard" /\ pc = "serving"

\* numerators of left + right and of right - left over the least common
\* denominator of the two finite values
SumNum(l, r) == LET g == GCD(l.d, r.d) IN l.n * (r.d \div g) + r.n * (l.d \div g)
DiffNum(l, r) == LET g == GCD(l.d, r.d) IN r.n * (l.d \div g) - l.n * (r.d \div g)

\* a double of any kind: a failure value would be none of these
IsDouble(x) == IsFinite(x) \/ IsNaN(x) \/ IsInf(x)

\* the double x is the fraction x.n / x.d up to the rounding of the operations:
\* it lies within 4096 half last places of it, a relative distance below 2^-41
Rounded(x) == IsFinite(x) /\ x.t = 0 /\ Abs(x.c) <= 4096 * x.d
\* the double x is num / den up to the rounding of the operations
Approx(x, num, den) ==
    LET g == GCD(Abs(num), Abs(den))
        s == Sgn(den)
    IN  Rounded(x) /\ den # 0 /\ x.n = (s * num) \div g /\ (num = 0 \/ x.d = Abs(den) \div g)
\* a == b on doubles: the two zeros are equal
FEq(a, b) == FGe(a, b) /\ FGe(b, a)

\* C1: for every pair with left + right # 0, the stored asymmetry equals
\* (right - left) / ((left + right) / 2) * 100, in all five asymmetry columns.
C1_AsymmetryFormula ==
    Loaded =>
        \A p \in AsymmetryPairs : \A i \in RowIds :
            LET a == df[p[1]][i]
                l == df[p[2]][i]
                r == df[p[3]][i]
            IN  (IsFinite(l) /\ IsFinite(r) /\ SumNum(l, r) # 0) =>
                    Approx(a, 200 * DiffNum(l, r), SumNum(l, r))

C1_Witness ==
    /\ Loaded
    /\ \E i \in RowIds :
           LET l == df["knee_extension_left"][i]
               r == df["knee_extension_right"][i]
           IN  /\ IsFinite(l) /\ IsFinite(r) /\ SumNum(l, r) # 0
               /\ l.d # 1 /\ DiffNum(l, r) > 0
               /\ df["knee_extension_asymmetry"][i].n > 0

\* C2 (as claimed): when left + right = 0 the asymmetry shown for the selected
\* session is an explicit failure, never a number, NaN or an infinity.
C2_SignalsDivisionByZero ==
    dash_out.kind = "ok" =>
        /\ SumNum(dash_out.jump_left_donut.values[1], dash_out.jump_right_donut.values[1]) = 0
               => dash_out.jump_asymmetry.kind \notin {"num", "nan", "inf", "-inf"}
        /\ SumNum(dash_out.rsid_left_donut.values[1], dash_out.rsid_right_donut.values[1]) = 0
               => dash_out.rsid_asymmetry.kind \notin {"num", "nan", "inf", "-inf"}

\* C3 (as claimed): update_dashboard returns for every offered athlete and
\* date; it never raises.
C3_NeverRaises == dash_out.kind # "raise"

\* C4: for body_mass > 0 the normalised knee extension and flexion strength of
\* each side is (force * lever) / body_mass of that side and session.
C4_KneeTorque ==
    HasMetrics =>
        \A k \in KneeSources : \A i \in RowIds :
            LET v == df[k[1]][i]
                f == df[k[2]][i]
                l == df[k[3]][i]
                m == df["body_mass"][i]
            IN  (IsFinite(m) /\ m.n > 0) =>
                    Approx(v, f.n * l.n * m.d, f.d * l.d * m.n)

C4_Witness ==
    /\ HasMetrics
    /\ \E i \in RowIds :
           /\ df["body_mass"][i].n > 0
           /\ df["knee_extension_lever_left"][i] = Float(3, 10)
           /\ df["knee_extension_force_left"][i] = R(3)
           /\ Approx(df["knee_extension_left"][i], 9, 20)

\* C5 (as claimed): for a body mass that is zero or negative the torque and
\* calf normalisations fail instead of producing a strength value.
C5_RejectsNonPositiveMass ==
    HasMetrics =>
        \A c \in MetricColumns : \A i \in RowIds :
            df["body_mass"][i].n <= 0 => ~IsDouble(df[c][i])

\* C6: for body_mass > 0 the calf strength of each side is
\* (force / 9.81) / body_mass * 100.
C6_CalfStrength ==
    HasMetrics =>
        \A k \in CalfSources : \A i \in RowIds :
            LET v == df[k[1]][i]
                f == df[k[2]][i]
                m == df["body_mass"][i]
            IN  (IsFinite(m) /\ m.n > 0) =>
                    Approx(v, 10000 * f.n * m.d, 981 * f.d * m.n)

C6_Witness ==
    /\ HasMetrics
    /\ \E i \in RowIds :
           /\ df["body_mass"][i] = R(2)
           /\ df["calf_force_right"][i] = R(3)
           /\ Approx(df["calf_strength_right"][i], 5000, 327)

\* the four donuts of a dashboard with their targets
DashDonuts ==
    {<<dash_out.jump_left_donut, JumpTarget>>, <<dash_out.jump_right_donut, JumpTarget>>,
     <<dash_out.rsid_left_donut, RsidTarget>>, <<dash_out.rsid_right_donut, RsidTarget>>}

\* the two donuts of a metric-page chart with their raw values
PageDonuts ==
    {<<chart_out.left_donut, chart_out.left_raw>>, <<chart_out.right_donut, chart_out.right_raw>>}

\* p = v / t * 100
IsPercentOf(p, v, t) == Approx(p, 100 * v.n * t.d, v.d * t.n)
\* v >= t, for finite v and t
AtLeast(v, t) == FGe(v, t)

\* C7 (as claimed): every percentage of target the program computes is
\* value / target * 100 with no clamp, on the dashboard and on the metric pages.
C7_UnclampedEverywhere ==
    /\ dash_out.kind = "ok" =>
           \A d \in DashDonuts : IsPercentOf(d[1].glow.value, d[1].values[1], d[2])
    /\ chart_out.kind = "ok" =>
           \A d \in PageDonuts : IsPercentOf(d[1].values[1], d[2], chart_out.target)

\* C7 (amended): the dashboard percentages (jump height against 17.0, RSI
\* against 0.52) are value / target * 100 with no clamp: above 100 when the
\* value is above the target, 100 when equal, 0 for 0.  The percentages of the
\* strength, power and reactive pages are min(100, value / target * 100).
C7_UnclampedOnDashboard ==
    /\ dash_out.kind = "ok" =>
           \A d \in DashDonuts :
               LET p == d[1].glow.value
                   v == d[1].values[1]
               IN  /\ IsPercentOf(p, v, d[2])
                   /\ (FLt(d[2], v) => FLt(R(100), p))
                   /\ (v = d[2] => p = R(100))
                   /\ (v = R(0) => p = R(0))
    /\ (chart_out.kind = "ok" /\ chart_out.target.n > 0) =>
           \A d \in PageDonuts :
               IF AtLeast(d[2], chart_out.target)
                   THEN d[1].values[1] = R(100)
                   ELSE IsPercentOf(d[1].values[1], d[2], chart_out.target)

C7_Witness ==
    /\ dash_out.kind = "ok"
    /\ FLt(JumpTarget, dash_out.jump_left_donut.values[1])
    /\ FLt(R(100), dash_out.jump_left_donut.glow.value)
    /\ dash_out.rsid_right_donut.glow.value = R(100)

\* C8 (as claimed): with a zero target the percentage of target fails with
\* InvalidInput, for every value.
C8_ZeroTargetInvalidInput ==
    (chart_out.kind \in {"ok", "raise"} /\ chart_out.target = R(0)) =>
        (chart_out.kind = "raise" /\ chart_out.error = "InvalidInput")

\* the filled fraction of a ring with the two slices is min(1, v / t)
RingClamped(slices, v, t) ==
    LET a == slices[1]
        b == slices[2]
    IN  /\ Rounded(a) /\ Rounded(b) /\ a.n >= 0 /\ b.n >= 0
        /\ IF AtLeast(v, t)
               THEN a.n > 0 /\ b.n = 0
               ELSE a.n * t.n * v.d * b.d = v.n * (a.n * b.d + b.n * a.d) * t.d

\* text is the decimal with text.places places nearest to num / den, den > 0
TextOf(text, num, den) ==
    /\ text.kind = "num"
    /\ 2 * Abs(text.q * den - num * Pow10(text.places)) <= den

\* text is the decimal nearest to v / t * 100
TextUnclamped(text, v, t) == TextOf(text, 100 * v.n * t.d, v.d * t.n)

\* text is the decimal nearest to min(100, v / t * 100)
TextClamped(text, v, t) ==
    IF AtLeast(v, t) THEN TextOf(text, 100, 1) ELSE TextUnclamped(text, v, t)

\* C9 (as claimed): in every donut the ring is clamped to 100% and the
\* percentage text is the unclamped value / target * 100.
C9_TextUnclampedEverywhere ==
    /\ dash_out.kind = "ok" =>
           \A d \in DashDonuts :
               d[1].values[1].n >= 0 =>
                   /\ RingClamped(d[1].values, d[1].values[1], d[2])
                   /\ TextUnclamped(d[1].text_percent, d[1].values[1], d[2])
    /\ (chart_out.kind = "ok" /\ chart_out.target.n > 0) =>
           \A d \in PageDonuts :
               d[2].n >= 0 =>
                   /\ RingClamped(d[1].values, d[2], chart_out.target)
                   /\ TextUnclamped(d[1].text_percent, d[2], chart_out.target)

\* C9 (amended): in every donut the filled fraction of the ring is
\* min(1, value / target) for value >= 0.  The text of a dashboard donut is the
\* unclamped value / target * 100 to one decimal; the text of a strength, power
\* or reactive donut is the clamped min(100, value / target * 100), to no decimal.
C9_RingClampedTextPerPage ==
    /\ dash_out.kind = "ok" =>
           \A d \in DashDonuts :
               d[1].values[1].n >= 0 =>
                   /\ RingClamped(d[1].values, d[1].values[1], d[2])
                   /\ TextUnclamped(d[1].text_percent, d[1].values[1], d[2])
                   /\ d[1].text_percent.places = 1
    /\ (chart_out.kind = "ok" /\ chart_out.target.n > 0) =>
           \A d \in PageDonuts :
               d[2].n >= 0 =>
                   /\ RingClamped(d[1].values, d[2], chart_out.target)
                   /\ TextClamped(d[1].text_percent, d[2], chart_out.target)
                   /\ d[1].text_percent.places = 0

C9_Witness ==
    /\ chart_out.kind = "ok"
    /\ chart_out.target.n > 0
    /\ FLt(chart_out.target, chart_out.left_raw)
    /\ chart_out.left_donut.text_percent = [kind |-> "num", q |-> 100, places |-> 0, minus |-> FALSE]
    /\ chart_out.left_donut.values = <<R(100), R(0)>>
    /\ FLt(chart_out.right_raw, chart_out.target)

\* C10: swapping the arguments negates the asymmetry index exactly whenever
\* left + right # 0, and the index of an equal pair is 0.
C10_Antisymmetric ==
    Loaded =>
        \A p \in AsymmetryPairs :
            LET swapped == calculate_asymmetry(df[p[3]], df[p[2]])
            IN  \A i \in RowIds :
                    LET a == df[p[1]][i]
                        l == df[p[2]][i]
                        r == df[p[3]][i]
                    IN  (IsFinite(l) /\ IsFinite(r) /\ SumNum(l, r) # 0) =>
                            /\ IsFinite(a) /\ IsFinite(swapped[i])
                            /\ FEq(swapped[i], FNeg(a))
                            /\ (l = r => IsZero(a))

C10_Witness ==
    /\ Loaded
    /\ \E i \in RowIds :
           /\ df["jump_height_asymmetry"][i].d > 0 /\ df["jump_height_asymmetry"][i].n < 0
           /\ calculate_asymmetry(df["sl_jump_height_right"], df["sl_jump_height_left"])[i].n > 0
           /\ df["calf_strength_left"][i] = df["calf_strength_right"][i]
           /\ df["calf_strength_left"][i].n # 0 /\ df["calf_strength_left"][i].d > 0
           /\ df["calf_strength_asymmetry"][i] = R(0)

\* the sessions of the table with a given pair of single-leg jump heights
JumpRows(l, r) ==
    {i \in RowIds : df["sl_jump_height_left"][i] = R(l) /\ df["sl_jump_height_right"][i] = R(r)}

\* C11 (as claimed): the asymmetry of the pair (10, 20) is 33.33... and of the
\* pair (20, 10) is -33.33..., that is 100/3 and -100/3.
C11_ExampleThirtyThree ==
    Loaded =>
        /\ \A i \in JumpRows(10, 20) : Approx(df["jump_height_asymmetry"][i], 100, 3)
        /\ \A i \in JumpRows(20, 10) : Approx(df["jump_height_asymmetry"][i], -100, 3)

\* C11 (amended): the asymmetry of the pair (10, 20) is 66.66... (200/3) and
\* of the pair (20, 10) is -66.66... (-200/3): the difference 10 is divided by
\* the mean 15 of the two sides, not by their sum.
C11_ExampleSixtySix ==
    Loaded =>
        /\ \A i \in JumpRows(10, 20) :
               Approx(df["jump_height_asymmetry"][i], 200, 3)
        /\ \A i \in JumpRows(20, 10) :
               Approx(df["jump_height_asymmetry"][i], -200, 3)

C11_Witness ==
    /\ Loaded
    /\ JumpRows(10, 20) # {}
    /\ \A i \in JumpRows(10, 20) : df["jump_height_asymmetry"][i].n > 0

\* text is the decimal nearest to the signed index
\* (right - left) / ((left + right) / 2) * 100 of a pair with left + right # 0
TextSigned(text, l, r) ==
    IF SumNum(l, r) > 0 THEN TextOf(text, 200 * DiffNum(l, r), SumNum(l, r))
    ELSE TextOf(text, -200 * DiffNum(l, r), -SumNum(l, r))

\* numerator of max(left, right) over the least common denominator
MaxNum(l, r) ==
    LET g == GCD(l.d, r.d)
        a == l.n * (r.d \div g)
        b == r.n * (l.d \div g)
    IN  IF a >= b THEN a ELSE b

\* the two asymmetry texts of a dashboard with their pairs
DashAsymmetries ==
    {<<dash_out.jump_asymmetry, dash_out.jump_left_donut.values[1],
       dash_out.jump_right_donut.values[1]>>,
     <<dash_out.rsid_asymmetry, dash_out.rsid_left_donut.values[1],
       dash_out.rsid_right_donut.values[1]>>}

\* C12 (as claimed): every asymmetry percentage shown, on the dashboard and on
\* the strength, power and reactive pages, is the signed index
\* (right - left) / ((left + right) / 2) * 100 of its pair.
C12_SignedEverywhere ==
    /\ dash_out.kind = "ok" =>
           \A t \in DashAsymmetries : SumNum(t[2], t[3]) # 0 => TextSigned(t[1], t[2], t[3])
    /\ chart_out.kind = "ok" =>
           (SumNum(chart_out.left_raw, chart_out.right_raw) # 0 =>
                TextSigned(chart_out.asymmetry_text, chart_out.left_raw, chart_out.right_raw))

\* C12 (amended): for a pair with a nonzero sum the two asymmetry percentages
\* of the athlete dashboard are the signed index
\* (right - left) / ((left + right) / 2) * 100 shown to one decimal.  When
\* right < left it is negative or zero after rounding if left + right > 0 and
\* positive or zero after rounding if left + right < 0.  The strength, power
\* and reactive pages show a different, unsigned quantity:
\* abs(left - right) / max(left, right) * 100, never negative when the larger
\* side is positive.
C12_SignedOnDashboard ==
    /\ dash_out.kind = "ok" =>
           \A t \in DashAsymmetries :
               SumNum(t[2], t[3]) # 0 =>
                   /\ TextSigned(t[1], t[2], t[3])
                   /\ (SumNum(t[2], t[3]) > 0 /\ DiffNum(t[2], t[3]) < 0) => t[1].q <= 0
                   /\ (SumNum(t[2], t[3]) < 0 /\ DiffNum(t[2], t[3]) < 0) => t[1].q >= 0
    /\ chart_out.kind = "ok" =>
           LET l == chart_out.left_raw
               r == chart_out.right_raw
           IN  MaxNum(l, r) > 0 =>
                   /\ TextOf(chart_out.asymmetry_text, 100 * Abs(DiffNum(l, r)), MaxNum(l, r))
                   /\ chart_out.asymmetry_text.q >= 0

\* a page whose right side is the weaker one, with its asymmetry shown positive
C12_Witness ==
    /\ chart_out.kind = "ok"
    /\ chart_out.right_raw.n > 0
    /\ DiffNum(chart_out.left_raw, chart_out.right_raw) < 0
    /\ chart_out.asymmetry_text.q > 0

\* the three line figures of a dashboard
DashLines == {dash_out.extension_line, dash_out.flexion_line, dash_out.calf_line}

\* the sessions of the athlete the dashboard was computed for
SelectedRows == {i \in RowIds : df["athlete"][i] = dash_out.selected_athlete[1]}

\* C13: weeks since injury is the whole-day difference (date - injury date)
\* divided by 7, negative when the date precedes the injury date and never
\* rejected or replaced: the x axis of every line figure has one such value
\* per session of the selected athlete, in date order, and the
\* 'Weeks Post-Injury' header shows it for the selected date.
C13_WeeksSince ==
    dash_out.kind = "ok" =>
        LET injury == dash_out.athlete_info.injury_date
        IN  /\ \A f \in DashLines :
                   /\ Len(f.x) = Cardinality(SelectedRows)
                   /\ \A k \in DOMAIN f.x : Rounded(f.x[k])
                   /\ \A j, k \in DOMAIN f.x : j < k => FLt(f.x[j], f.x[k])
                   /\ \A i \in SelectedRows : \E k \in DOMAIN f.x :
                          /\ f.x[k].n * 7 = (df["date"][i] - injury) * f.x[k].d
                          /\ df["date"][i] < injury => f.x[k].n < 0
            /\ TextOf(dash_out.athlete_info.weeks, dash_out.selected_date[1] - injury, 7)
            /\ dash_out.selected_date[1] < injury => dash_out.athlete_info.weeks.q < 0

\* a session dated before the injury, shown with a later one
C13_Witness ==
    /\ dash_out.kind = "ok"
    /\ Len(dash_out.calf_line.x) >= 2
    /\ dash_out.calf_line.x[1].n < 0
    /\ dash_out.calf_line.x[2].n > 0
    /\ dash_out.athlete_info.weeks.q < 0

\* the dashboard shows a session tested 14 days after its injury date
TwoWeeksAfter ==
    /\ dash_out.kind = "ok"
    /\ dash_out.selected_date[1] = dash_out.athlete_info.injury_date + 14

\* C14 (as claimed): with the argument order weeksSince(date, referenceDate),
\* weeksSince(injuryDate, testDate) is 2.0 for a test 14 days after the injury.
C14_InjuryFirstIsTwo ==
    TwoWeeksAfter =>
        WeeksSince(dash_out.athlete_info.injury_date, dash_out.selected_date[1]) = R(2)

\* C14 (amended): for a test 14 days after the injury it is
\* weeksSince(testDate, injuryDate) that is 2.0, and the header shows 2.0;
\* weeksSince(injuryDate, testDate) is -2.0.
C14_TestFirstIsTwo ==
    TwoWeeksAfter =>
        /\ dash_out.athlete_info.weeks = [kind |-> "num", q |-> 20, places |-> 1, minus |-> FALSE]
        /\ \A f \in DashLines : \E k \in DOMAIN f.x : f.x[k] = R(2)
        /\ WeeksSince(dash_out.selected_date[1], dash_out.athlete_info.injury_date) = R(2)
        /\ WeeksSince(dash_out.athlete_info.injury_date, dash_out.selected_date[1]) = R(-2)

C14_Witness ==
    /\ TwoWeeksAfter
    /\ dash_out.athlete_info.weeks.q = 20

\* the sessions the dashboard was computed for: the selected athlete and date
LatestRows == {i \in SelectedRows : df["date"][i] = dash_out.selected_date[1]}

\* C15: the age shown for the selected session is the whole-day difference
\* between the session date and the date of birth divided by 365.25 (that is,
\* 4 * days / 1461), to one decimal.
C15_AgeYears ==
    dash_out.kind = "ok" =>
        /\ LatestRows # {}
        /\ \A i \in LatestRows :
               TextOf(dash_out.athlete_info.age,
                      4 * (dash_out.selected_date[1] - df["date_of_birth"][i]), 1461)

\* a session 7319 days after the date of birth: 20.04 years, shown as 20.0
C15_Witness ==
    /\ dash_out.kind = "ok"
    /\ \E i \in LatestRows : dash_out.selected_date[1] - df["date_of_birth"][i] = 7319
    /\ dash_out.athlete_info.age = [kind |-> "num", q |-> 200, places |-> 1, minus |-> FALSE]

\* a column with every value doubled, and the double and the half of a value
Doubled(series) == SeriesMulScalar(series, R(2))
Twice(v) == FMul(v, R(2))
Half(v) == FDiv(v, R(2))

\* C16: the normalised knee strength is linear in the force and in the lever
\* arm and inverse in the body mass: for every session with body_mass > 0,
\* doubling the force doubles it, doubling the lever doubles it, and doubling
\* the body mass halves it.
C16_TorqueScaling ==
    HasMetrics =>
        \A k \in KneeSources :
            LET force == df[k[2]]
                lever == df[k[3]]
                mass == df["body_mass"]
            IN  \A i \in RowIds :
                    mass[i].n > 0 =>
                        /\ KneeStrength(Doubled(force), lever, mass)[i] = Twice(df[k[1]][i])
                        /\ KneeStrength(force, Doubled(lever), mass)[i] = Twice(df[k[1]][i])
                        /\ KneeStrength(force, lever, Doubled(mass))[i] = Half(df[k[1]][i])

\* a session with a fractional lever arm and a non-zero strength
C16_Witness ==
    /\ HasMetrics
    /\ \E i \in RowIds :
           /\ df["body_mass"][i].n > 0
           /\ df["knee_flexion_lever_left"][i] = Float(3, 10)
           /\ df["knee_flexion_left"][i].n > 0
           /\ KneeStrength(Doubled(df["knee_flexion_force_left"]), df["knee_flexion_lever_left"],
                            df["body_mass"])[i] = Twice(df["knee_flexion_left"][i])
           /\ Twice(df["knee_flexion_left"][i]) # df["knee_flexion_left"][i]

\* the sessions of the end-to-end example: left force 231 on a lever of 0.3,
\* body mass 70, and a right strength of 1.1
ExampleKneeRows ==
    {i \in RowIds : /\ df["knee_extension_force_left"][i] = R(231)
                    /\ df["knee_extension_lever_left"][i] = Float(3, 10)
                    /\ df["body_mass"][i] = R(70)
                    /\ df["knee_extension_right"][i] = Float(11, 10)}

\* value is q / 100 to two decimals: within half a hundredth of it
TwoDecimals(value, q) == FormatF(value, 2) = [kind |-> "num", q |-> q, places |-> 2, minus |-> q < 0]

\* C17 (as claimed): in the example the left knee extension strength is 0.99
\* and its asymmetry with the right value 1.1 is 10.52% to two decimals.
C17_ExampleTenFiftyTwo ==
    Loaded =>
        \A i \in ExampleKneeRows :
            /\ TwoDecimals(df["knee_extension_left"][i], 99)
            /\ TwoDecimals(df["knee_extension_asymmetry"][i], 1052)

\* C17 (amended): in the example the left knee extension strength is 0.99
\* and its asymmetry with the right value 1.1 is 0.11 / 1.045 * 100 =
\* 10.526...%, which is 10.53% to two decimals.
C17_ExampleTenFiftyThree ==
    Loaded =>
        \A i \in ExampleKneeRows :
            /\ TwoDecimals(df["knee_extension_left"][i], 99)
            /\ Approx(df["knee_extension_left"][i], 99, 100)
            /\ TwoDecimals(df["knee_extension_asymmetry"][i], 1053)
            /\ Approx(df["knee_extension_asymmetry"][i], 200, 19)

C17_Witness ==
    /\ Loaded
    /\ \E i \in ExampleKneeRows : df["knee_extension_asymmetry"][i].n > 0

\* the sessions of the calf example: a force of 500 N at a body mass of 70 kg
ExampleCalfRows ==
    {i \in RowIds : df["calf_force_left"][i] = R(500) /\ df["body_mass"][i] = R(70)}

\* C18 (as claimed): the calf strength of 500 N at 70 kg is 72.84 to two
\* decimals.
C18_ExampleSeventyTwoEightyFour ==
    HasMetrics => \A i \in ExampleCalfRows : TwoDecimals(df["calf_strength_left"][i], 7284)

\* C18 (amended): the calf strength of 500 N at 70 kg is
\* (500 / 9.81) / 70 * 100 = 500000 / 6867 = 72.812..., 72.81 to two decimals.
C18_ExampleSeventyTwoEightyOne ==
    HasMetrics =>
        \A i \in ExampleCalfRows :
            /\ TwoDecimals(df["calf_strength_left"][i], 7281)
            /\ Approx(df["calf_strength_left"][i], 500000, 6867)

C18_Witness ==
    /\ HasMetrics
    /\ \E i \in ExampleCalfRows : df["calf_strength_left"][i].n > 0

\* C19: the session table is immutable once loaded: no invocation of
\* update_dashboard, whatever the selections, changes, adds or deletes a
\* session or a raw or derived column of the table.
C19_TableImmutable == [][Loaded => df' = df]_vars

\* the callback has answered for a table of several sessions, which still has
\* every raw and derived column
C19_Witness ==
    /\ Loaded
    /\ dash_out.kind = "ok"
    /\ NRows >= 2
    /\ DOMAIN df = RawColumns \cup MetricColumns \cup AsymmetryColumns

\* the callback has just answered the selections of the noted invocation
SameSelections ==
    /\ noted.out.kind # "never"
    /\ dash_out.selected_athlete = noted.out.selected_athlete
    /\ dash_out.selected_date = noted.out.selected_date

\* C20: two invocations of update_dashboard with the same athlete and date
\* return equal values (title, header, donuts, asymmetry texts and plotted
\* series), whatever was invoked before or between them.
C20_SameSelectionsSameOutput == SameSelections => dash_out = noted.out

\* an invocation repeated after invocations with other selections, with a
\* dashboard as its answer
C20_Witness ==
    /\ SameSelections
    /\ noted.others
    /\ dash_out.kind = "ok"
    /\ dash_out = noted.out

\* C21 (as claimed): the page display_page returns for a pathname, the
\* series of its line graphs included, is the same on every call: asking
\* again for the pathname shown leaves the content as it is.
C21_SamePageEveryCall ==
    [][(page_out.kind # "never" /\ pathname' = pathname) => page_out' = page_out]_vars

\* the page name a metric page or the capacity page was built for
PageName(page) ==
    IF page.kind = "capacity" THEN "capacity"
    ELSE IF page.kind = "metric" THEN page.active_page
    ELSE "none"

\* the six routes of the application
Routes ==
    {<<"/capacity", "capacity">>, <<"/strength", "strength">>, <<"/power", "power">>,
     <<"/reactive", "reactive">>, <<"/linear", "linear">>, <<"/direction", "direction">>}

\* C22: routing is total and depends only on the current pathname: once
\* display_page has run, the page shown is the capacity, strength, power,
\* reactive, linear or direction page exactly when the pathname is that
\* page's route, and the navigation dashboard for every other pathname,
\* None and the empty string included; display_page never raises and never
\* returns no page.
C22_RoutingTotal ==
    page_out.kind # "never" =>
        /\ page_out.kind \in {"navigation", "metric", "capacity"}
        /\ \A r \in Routes : pathname = Some(r[1]) <=> PageName(page_out) = r[2]
        /\ (\A r \in Routes : pathname # Some(r[1])) <=> page_out.kind = "navigation"
        /\ page_out.kind = "metric" => Len(page_out.graphs) = 3

\* the last route, reached after another page was shown with a date picked
C22_Witness ==
    /\ pathname = Some("/direction")
    /\ page_out.kind = "metric"
    /\ page_out.active_page = "direction"
    /\ date_dropdown # None

\* the circles of the page shown that are drawn as selected
SelectedCircles == {i \in DOMAIN page_out.circles : page_out.circles[i].is_selected}

\* C23: on every page display_page returns there are six navigation circles
\* and at most one is drawn as selected: on a metric page exactly one, the
\* circle whose link is the current pathname; on the navigation dashboard
\* none.
C23_OneCircleSelected ==
    page_out.kind \in {"navigation", "metric", "capacity"} =>
        /\ Len(page_out.circles) = 6
        /\ Cardinality(SelectedCircles) <= 1
        /\ page_out.kind = "navigation" => SelectedCircles = {}
        /\ page_out.kind \in {"metric", "capacity"} =>
               /\ Cardinality(SelectedCircles) = 1
               /\ \A i \in SelectedCircles :
                      /\ Some(page_out.circles[i].href) = pathname
                      /\ page_out.circles[i].transform = "scale(1.08)"
        /\ \A i \in DOMAIN page_out.circles :
               ~page_out.circles[i].is_selected => page_out.circles[i].transform = "scale(1)"

\* the strength page, with the second circle selected
C23_Witness ==
    /\ page_out.kind = "metric"
    /\ pathname = Some("/strength")
    /\ SelectedCircles = {2}

\* the asymmetry of the chart is below, or above, a number of percent; the
\* asymmetry is the double abs(left - right) / max(left, right) * 100 that
\* the chart computes, with a positive max
AsymBelow(pct) == FLt(PageAsymmetry(chart_out.left_raw, chart_out.right_raw), R(pct))
AsymAbove(pct) == FLt(R(pct), PageAsymmetry(chart_out.left_raw, chart_out.right_raw))

\* C24 (as claimed): the asymmetry indicator of a strength, power or reactive
\* chart is green when the asymmetry is below 10%, amber from 10% to 20% and
\* red only above 20%: an asymmetry of exactly 20% is not red.
C24_BandsAsCommented ==
    (chart_out.kind = "ok" /\ MaxNum(chart_out.left_raw, chart_out.right_raw) > 0) =>
        /\ chart_out.asymmetry_color \in {"#4CAF50", "#FFC107", "#F44336"}
        /\ chart_out.asymmetry_color = "#4CAF50" <=> AsymBelow(10)
        /\ chart_out.asymmetry_color = "#F44336" <=> AsymAbove(20)

\* C25: on the strength, power and reactive pages, for a raw value >= 0 and
\* a target > 0 the two slices of each donut are the achieved percent and 100
\* minus it: both lie in [0, 100], they sum to exactly 100, and the achieved
\* slice is 100, not more, when the raw value is at or above the target.
C25_SlicesSumToHundred ==
    (chart_out.kind = "ok" /\ chart_out.target.n > 0) =>
        \A d \in PageDonuts :
            LET a == d[1].values[1]
                b == d[1].values[2]
            IN  d[2].n >= 0 =>
                    /\ Len(d[1].values) = 2
                    /\ Rounded(a) /\ Rounded(b)
                    /\ FGe(a, R(0)) /\ FGe(R(100), a)
                    /\ FGe(b, R(0)) /\ FGe(R(100), b)
                    /\ a.n * b.d + b.n * a.d = 100 * a.d * b.d
                    /\ FAdd(a, b) = R(100)
                    /\ AtLeast(d[2], chart_out.target) => a = R(100) /\ b = R(0)

\* a chart whose left value is above its target and whose right value is half
\* of it
C25_Witness ==
    /\ chart_out.kind = "ok"
    /\ chart_out.target.n > 0
    /\ FLt(chart_out.target, chart_out.left_raw)
    /\ chart_out.left_donut.values = <<R(100), R(0)>>
    /\ chart_out.right_donut.values = <<R(50), R(50)>>

\* C26: on the dashboard the 'Remaining' slice of every donut is
\* max(0, target - value): it is never negative, it is 0 when the value is at
\* or above the target, and for a value between 0 and the target the two
\* slices add up to the target.
C26_RemainingIsShortfall ==
    dash_out.kind = "ok" =>
        \A d \in DashDonuts :
            LET v == d[1].values[1]
                r == d[1].values[2]
                t == d[2]
            IN  /\ Len(d[1].values) = 2
                /\ r = PyMax(R(0), FSub(t, v))
                /\ ~IsNaN(r) /\ r.n >= 0
                /\ (IsFinite(v) /\ AtLeast(v, t)) => r = R(0)
                /\ (IsFinite(v) /\ v.n >= 0 /\ AtLeast(t, v)) =>
                        /\ Rounded(r)
                        /\ (v.n * r.d + r.n * v.d) * t.d = t.n * (v.d * r.d)

\* a dashboard with one jump height above its target and the other below it
C26_Witness ==
    /\ dash_out.kind = "ok"
    /\ FLt(JumpTarget, dash_out.jump_left_donut.values[1])
    /\ dash_out.jump_left_donut.values[2] = R(0)
    /\ FLt(R(0), dash_out.jump_right_donut.values[1])
    /\ FLt(dash_out.jump_right_donut.values[1], JumpTarget)
    /\ FLt(R(0), dash_out.jump_right_donut.values[2])

\* the four donuts of a dashboard with their targets and the first colour of
\* their side's gradient
DashSideDonuts ==
    {<<dash_out.jump_left_donut, JumpTarget, "#01ADD8">>,
     <<dash_out.jump_right_donut, JumpTarget, "#364650">>,
     <<dash_out.rsid_left_donut, RsidTarget, "#01ADD8">>,
     <<dash_out.rsid_right_donut, RsidTarget, "#364650">>}

\* C27: a dashboard donut has the green glow with the higher opacities exactly
\* when its percentage of target is at least 100, and the glow of its side's
\* colour with the standard opacities otherwise; it is green if and only if
\* the displayed value is at or above the target.
C27_GreenGlowIffAtTarget ==
    dash_out.kind = "ok" =>
        \A d \in DashSideDonuts :
            LET glow == d[1].glow
                value == d[1].values[1]
                green == [value |-> glow.value, color |-> "#2ecc71", opacities |-> <<50, 40, 30>>]
                plain == [value |-> glow.value, color |-> d[3], opacities |-> <<20, 15, 10>>]
            IN  /\ glow \in {green, plain}
                /\ glow = green <=> FGe(glow.value, R(100))
                /\ glow = green <=> FGe(value, d[2])

\* a dashboard with one jump height exactly at its target and the other below
C27_Witness ==
    /\ dash_out.kind = "ok"
    /\ dash_out.jump_left_donut.values[1] = JumpTarget
    /\ dash_out.jump_left_donut.glow.color = "#2ecc71"
    /\ FLt(dash_out.jump_right_donut.values[1], JumpTarget)
    /\ dash_out.jump_right_donut.glow.color = "#364650"

\* the per-exercise maximum of the pictograms, title by title
PictogramMaximum ==
    [e \in Exercises |->
        IF e = "Single Leg Calf Raises" THEN 30
        ELSE IF e = "Chin-ups" THEN 12
        ELSE 25]

\* C28: each side of a pictogram chart shows max(reps, M) dots, M being the
\* maximum of its exercise; the first reps dots are filled and the others
\* unfilled, and the dots lie in rows of exactly 10 except the last row, which
\* has between 1 and 10.
C28_PictogramDots ==
    capacity_out.kind = "pictogram" =>
        \A s \in {capacity_out.left, capacity_out.right} :
            LET M == PictogramMaximum[capacity_out.title]
                rows == s.rows
                last == Len(rows)
                filled == IF s.side = "Left" THEN "#00BCD4" ELSE "#455A64"
                unfilled == IF s.side = "Left" THEN "rgba(0, 188, 212, 0.2)"
                            ELSE "rgba(69, 90, 100, 0.2)"
            IN  /\ s.reps >= 0
                /\ last >= 1
                /\ \A k \in 1 .. last - 1 : Len(rows[k]) = 10
                /\ Len(rows[last]) \in 1 .. 10
                /\ 10 * (last - 1) + Len(rows[last]) = (IF s.reps > M THEN s.reps ELSE M)
                /\ \A k \in 1 .. last : \A j \in 1 .. Len(rows[k]) :
                       rows[k][j] = (IF 10 * (k - 1) + j <= s.reps THEN filled ELSE unfilled)
                /\ s.reps >= M =>
                       \A k \in 1 .. last : \A j \in 1 .. Len(rows[k]) : rows[k][j] = filled

\* a calf-raise chart with 31 repetitions on the left, one above the maximum,
\* and none on the right
C28_Witness ==
    /\ capacity_out.kind = "pictogram"
    /\ capacity_out.title = "Single Leg Calf Raises"
    /\ capacity_out.left.reps = 31
    /\ Len(capacity_out.left.rows) = 4
    /\ Len(capacity_out.left.rows[4]) = 1
    /\ capacity_out.right.reps = 0
    /\ Len(capacity_out.right.rows) = 3

\* the charts of a capacity page, lower limb first
CapacityCharts(out) ==
    {out.lower_limb[k] : k \in DOMAIN out.lower_limb}
    \cup {out.upper_limb[k] : k \in DOMAIN out.upper_limb}

\* the index of the record the claim speaks of: the most recent one dated on
\* or before the selected date, the earliest one when there is none
RecordShown(selected_date) ==
    IF \E i \in DOMAIN HistDates : HistDates[i] <= selected_date
        THEN CHOOSE i \in DOMAIN HistDates :
                /\ HistDates[i] <= selected_date
                /\ \A j \in DOMAIN HistDates : HistDates[j] <= selected_date => j <= i
        ELSE 1

SampleEntry(title) ==
    IF title \in StrengthTitles THEN SampleStrength[title]
    ELSE IF title \in PowerTitles THEN SamplePower[title]
    ELSE SampleReactive[title]

\* the page shown has the content of the sample tables and of the default
\* date: on the capacity page the repetitions and the 'Last tested' date of
\* the record of 2023-12-01, on the other pages the raw values and the
\* percentages of the sample entries, all below their targets, and the test
\* date 31/12/2023
SampleContent ==
    /\ page_out.kind = "capacity" =>
           /\ {c.chart.title : c \in CapacityCharts(page_out)} = Exercises
           /\ \A c \in CapacityCharts(page_out) :
                  /\ c.chart.left.reps = LeftReps[c.chart.title][12]
                  /\ c.chart.right.reps = RightReps[c.chart.title][12]
                  /\ c.test_date = Some(Dmy(20231201))
    /\ page_out.kind = "metric" =>
           \A k \in DOMAIN page_out.graphs :
               LET g == page_out.graphs[k]
               IN  /\ g.line.test_date = Dmy(20231231)
                   /\ "donut" \in DOMAIN g =>
                          LET e == SampleEntry(g.donut.title)
                          IN  /\ g.donut.kind = "ok"
                              /\ g.donut.left_raw = e.left
                              /\ g.donut.right_raw = e.right
                              /\ IsPercentOf(g.donut.left_donut.values[1], e.left, e.target)
                              /\ IsPercentOf(g.donut.right_donut.values[1], e.right, e.target)

\* C30: in the multi-page application the page content is unaffected by the
\* athlete and date dropdowns: a selection leaves the page shown as it is, and
\* after any selections the charts, repetitions, percentages and 'Last tested'
\* dates of a page are those of the sample tables and of the default date.
C30_DropdownsIgnored ==
    /\ []SampleContent
    /\ [][(athlete_dropdown' # athlete_dropdown \/ date_dropdown' # date_dropdown)
              => page_out' = page_out]_vars

\* the capacity page shown after the first date and an athlete were selected
C30_Witness ==
    /\ page_out.kind = "capacity"
    /\ pathname = Some("/capacity")
    /\ date_dropdown = Some(HistDates[1])
    /\ athlete_dropdown # None
    /\ page_out.lower_limb[1].chart.left.reps = 28

=============================================================================
